---------------------------- MODULE Spec2Model ----------------------------
(***************************************************************************)
(* AppScope: the text-pattern analysis engine (src/utils.py and            *)
(* src/analysis_free.py).  Review texts, keywords and sentences are TLA+   *)
(* strings; Python's None is the empty tuple and a returned string s is    *)
(* the one-element tuple <<s>>.                                            *)
(***************************************************************************)
EXTENDS Integers, Sequences, FiniteSets, TLC

VARIABLES
    text,          \* argument of find_keyword_in_text / extract_complete_sentence
    keyword,       \* argument of extract_complete_sentence
    keywords,      \* argument of find_keyword_in_text
    max_length,    \* argument of extract_complete_sentence
    found,         \* return value of find_keyword_in_text
    sentence,      \* return value of extract_complete_sentence
    called,        \* the operations that have run so far
    df,                  \* the review corpus: rows with a rating and a review body
    complaint_analysis,  \* analyze_complaints_and_praise: first return value
    praise_analysis,     \* analyze_complaints_and_praise: second return value
    sorted_complaints,   \* run_free_analysis: categories in presentation order
    sorted_praise,       \* run_free_analysis: categories in presentation order
    jtbd_statements,     \* return value of extract_jtbds_from_reviews
    forces_analysis,     \* return value of analyze_forces_of_progress
    pain_points,         \* analyze_outcomes: first return value
    wins,                \* analyze_outcomes: second return value
    job_reviews,         \* argument `reviews` of extract_jtbds_from_reviews
    job_limit,           \* argument `limit` of extract_jtbds_from_reviews
    feed,          \* the review feed: what fetching each page gives
    max_pages,     \* argument of scrape_app_reviews
    page,          \* scrape_app_reviews: the loop variable
    all_reviews,   \* scrape_app_reviews: the rows collected so far
    requested,     \* the pages whose URL has been fetched, in order
    pc,            \* scrape_app_reviews: "idle", "loop", "break" or "returned"
    scraped        \* return value of scrape_app_reviews

text_vars == <<text, keyword, keywords, max_length, found, sentence>>

analysis_vars ==
    <<df, complaint_analysis, praise_analysis, sorted_complaints, sorted_praise,
      jtbd_statements, forces_analysis, pain_points, wins>>

job_vars == <<job_reviews, job_limit>>

scrape_vars == <<feed, max_pages, page, all_reviews, requested, pc, scraped>>

vars == <<text_vars, analysis_vars, job_vars, scrape_vars, called>>

---------------------------------------------------------------------------
(* Python values *)

None == <<>>
Some(s) == <<s>>

\* Python truthiness of an optional string: None and "" are both falsy.
Truthy(r) == r # None /\ r[1] # ""

Min(S) == CHOOSE m \in S : \A n \in S : m <= n

Range(f) == {f[i] : i \in DOMAIN f}

\* seq[:n]
FirstN(seq, n) == SubSeq(seq, 1, IF Len(seq) < n THEN Len(seq) ELSE n)

---------------------------------------------------------------------------
(* str methods *)

Char(s, i) == SubSeq(s, i, i)

LowerMap ==
    [c \in {"A", "B", "C", "D", "E", "F", "G", "H", "I", "J", "K", "L", "M",
            "N", "O", "P", "Q", "R", "S", "T", "U", "V", "W", "X", "Y", "Z"} |->
        CASE c = "A" -> "a" [] c = "B" -> "b" [] c = "C" -> "c" [] c = "D" -> "d"
          [] c = "E" -> "e" [] c = "F" -> "f" [] c = "G" -> "g" [] c = "H" -> "h"
          [] c = "I" -> "i" [] c = "J" -> "j" [] c = "K" -> "k" [] c = "L" -> "l"
          [] c = "M" -> "m" [] c = "N" -> "n" [] c = "O" -> "o" [] c = "P" -> "p"
          [] c = "Q" -> "q" [] c = "R" -> "r" [] c = "S" -> "s" [] c = "T" -> "t"
          [] c = "U" -> "u" [] c = "V" -> "v" [] c = "W" -> "w" [] c = "X" -> "x"
          [] c = "Y" -> "y" [] c = "Z" -> "z"]

LowerChar(c) == IF c \in DOMAIN LowerMap THEN LowerMap[c] ELSE c

\* str.lower(), by halves so that the recursion stays shallow on long texts.
RECURSIVE Lower(_)
Lower(s) ==
    IF Len(s) = 0 THEN ""
    ELSE IF Len(s) = 1 THEN LowerChar(s)
    ELSE LET h == Len(s) \div 2
         IN  Lower(SubSeq(s, 1, h)) \o Lower(SubSeq(s, h + 1, Len(s)))

\* `k in t` on Python strings: k is a substring of t.
Contains(t, k) ==
    \E i \in 0..(Len(t) - Len(k)) : SubSeq(t, i + 1, i + Len(k)) = k

IsSpace(c) == c \in {" ", "\t", "\n"}
IsTerminal(c) == c \in {".", "!", "?"}

\* str.strip()
Strip(s) ==
    LET solid == {i \in 1..Len(s) : ~IsSpace(Char(s, i))}
    IN  IF solid = {} THEN ""
        ELSE SubSeq(s, Min(solid), CHOOSE m \in solid : \A n \in solid : n <= m)

\* re.split(r'(?<=[.!?])\s+', s): cut at every maximal run of whitespace that
\* directly follows '.', '!' or '?'; the run itself is dropped.
RECURSIVE SplitSentences(_)
SplitSentences(s) ==
    LET cuts == {i \in 2..Len(s) : IsTerminal(Char(s, i - 1)) /\ IsSpace(Char(s, i))}
    IN  IF cuts = {} THEN <<s>>
        ELSE LET i    == Min(cuts)
                 rest == {j \in i..Len(s) : ~IsSpace(Char(s, j))}
                 j    == IF rest = {} THEN Len(s) + 1 ELSE Min(rest)
             IN  <<SubSeq(s, 1, i - 1)>> \o SplitSentences(SubSeq(s, j, Len(s)))

---------------------------------------------------------------------------
(* src/utils.py *)

DefaultMaxLength == 400
ShortSentence == 50

\* The scan `for keyword in keywords: if keyword in text_lower: return keyword`.
\* The keyword is compared as written; only the text is lower-cased.
RECURSIVE FirstKeywordIn(_, _)
FirstKeywordIn(text_lower, kws) ==
    IF kws = <<>> THEN None
    ELSE IF Contains(text_lower, Head(kws)) THEN Some(Head(kws))
    ELSE FirstKeywordIn(text_lower, Tail(kws))

find_keyword_in_text(t, kws) == FirstKeywordIn(Lower(t), kws)

\* A scan that keeps the last sentence holding the keyword instead of stopping
\* at the first one.
SelectLastSentence(sentences, kw) ==
    LET hits == {i \in 1..Len(sentences) : Contains(Lower(sentences[i]), kw)}
    IN  IF hits = {} THEN 0 ELSE CHOOSE m \in hits : \A n \in hits : n <= m

\* `for i, sentence in enumerate(sentences): if keyword in sentence.lower()`:
\* the (1-based) index of the sentence the loop stops at, 0 if it runs out.
SelectSentence(sentences, kw) ==
    LET hits == {i \in 1..Len(sentences) : Contains(Lower(sentences[i]), kw)}
    IN  IF hits = {} THEN 0 ELSE Min(hits)

\* A padding that decides on both neighbours from the length of the selected
\* sentence alone.
PadSentenceBothSides(sentences, i) ==
    LET r0 == Strip(sentences[i])
        r1 == IF Len(r0) < ShortSentence /\ i < Len(sentences)
              THEN r0 \o " " \o Strip(sentences[i + 1]) ELSE r0
    IN  IF Len(r0) < ShortSentence /\ i > 1
        THEN Strip(sentences[i - 1]) \o " " \o r1 ELSE r1

\* The padding of a short sentence with its neighbours.
PadSentence(sentences, i) ==
    LET r0 == Strip(sentences[i])
        r1 == IF Len(r0) < ShortSentence /\ i < Len(sentences)
              THEN r0 \o " " \o Strip(sentences[i + 1]) ELSE r0
    IN  IF Len(r1) < ShortSentence /\ i > 1
        THEN Strip(sentences[i - 1]) \o " " \o r1 ELSE r1

\* A cap that cuts without appending the marker.
CapLengthNoMarker(result, maxlen) ==
    IF Len(result) > maxlen THEN SubSeq(result, 1, maxlen) ELSE result

\* The cap at max_length.
CapLength(result, maxlen) ==
    IF Len(result) > maxlen THEN SubSeq(result, 1, maxlen) \o "..." ELSE result

extract_complete_sentence(t, kw, maxlen) ==
    IF ~Contains(Lower(t), kw) THEN None
    ELSE LET sentences == SplitSentences(t)
             i         == SelectSentence(sentences, kw)
         IN  IF i = 0 THEN None
             ELSE Some(CapLength(PadSentence(sentences, i), maxlen))

---------------------------------------------------------------------------
(* The vocabularies: FEATURE_PATTERNS of src/utils.py (category names without
   their emoji prefix) and the keyword tables of src/analysis_free.py *)

CategoryOrder ==
    <<"Pricing/Monetization",
      "Bugs/Reliability",
      "Sync/Backup",
      "UI/UX",
      "Performance",
      "Features/Functionality",
      "Search/Filter",
      "Import/Export",
      "Multi-device/Sharing",
      "Support/Help">>

FEATURE_PATTERNS ==
    [category \in Range(CategoryOrder) |->
        CASE category = "Pricing/Monetization" ->
                <<"subscription", "price", "cost", "expensive", "cheap",
                  "free", "paid", "pay", "purchase", "buy", "money", "dollar",
                  "trial", "refund">>
          [] category = "Bugs/Reliability" ->
                <<"crash", "crashes", "bug", "bugs", "freeze", "error",
                  "glitch", "broken", "stopped", "working", "fail", "failed",
                  "problem">>
          [] category = "Sync/Backup" ->
                <<"sync", "syncing", "synchronize", "backup", "restore",
                  "cloud", "icloud", "save", "saved", "autosave", "lost",
                  "data">>
          [] category = "UI/UX" ->
                <<"interface", "design", "layout", "navigation", "confusing",
                  "easy", "simple", "intuitive", "complicated", "ugly",
                  "beautiful", "clean">>
          [] category = "Performance" ->
                <<"slow", "fast", "speed", "lag", "loading", "quick",
                  "responsive", "smooth", "sluggish", "performance">>
          [] category = "Features/Functionality" ->
                <<"feature", "features", "function", "functionality",
                  "option", "options", "missing", "need", "want", "wish",
                  "add", "remove">>
          [] category = "Search/Filter" ->
                <<"search", "find", "filter", "sort", "lookup", "locate">>
          [] category = "Import/Export" ->
                <<"import", "export", "share", "sharing", "download",
                  "upload", "pdf", "csv", "email">>
          [] category = "Multi-device/Sharing" ->
                <<"device", "devices", "phone", "ipad", "mac", "tablet",
                  "share", "family", "multiple">>
          [] category = "Support/Help" ->
                <<"support", "help", "customer", "service", "contact",
                  "response", "developer", "team", "reply">>]

complaint_patterns ==
    [category \in Range(CategoryOrder) |->
        CASE category = "Pricing/Monetization" ->
                <<[name |-> "subscription model",
                   keywords |-> <<"subscription", "recurring", "monthly",
                                 "yearly", "one-time", "one time">>],
                  [name |-> "price too high",
                   keywords |-> <<"expensive", "too much", "overpriced",
                                 "cost", "price">>],
                  [name |-> "hidden costs",
                   keywords |-> <<"hidden", "not disclosed", "surprise",
                                 "didnt know", "wasn't told">>],
                  [name |-> "free trial issues",
                   keywords |-> <<"trial", "free version", "limited">>]>>
          [] category = "Bugs/Reliability" ->
                <<[name |-> "crashes frequently",
                   keywords |-> <<"crash", "crashes", "crashing", "freeze",
                                 "frozen">>],
                  [name |-> "data loss",
                   keywords |-> <<"lost", "deleted", "disappeared", "missing",
                                 "gone">>],
                  [name |-> "sync failures",
                   keywords |-> <<"sync", "syncing", "won't sync",
                                 "doesn't sync">>],
                  [name |-> "broken features",
                   keywords |-> <<"doesn't work", "not working", "broken",
                                 "stopped working">>]>>
          [] category = "Sync/Backup" ->
                <<[name |-> "sync doesn't work",
                   keywords |-> <<"sync", "syncing", "won't sync">>],
                  [name |-> "data loss",
                   keywords |-> <<"lost", "disappeared", "missing">>],
                  [name |-> "icloud issues",
                   keywords |-> <<"icloud", "cloud">>],
                  [name |-> "can't restore backup",
                   keywords |-> <<"restore", "backup", "recover">>]>>
          [] category = "UI/UX" ->
                <<[name |-> "confusing interface",
                   keywords |-> <<"confusing", "unclear", "don't understand",
                                 "complicated">>],
                  [name |-> "hard to navigate",
                   keywords |-> <<"navigate", "navigation", "find", "locate">>],
                  [name |-> "poor design",
                   keywords |-> <<"ugly", "design", "layout", "interface">>],
                  [name |-> "not intuitive",
                   keywords |-> <<"not intuitive", "unintuitive", "not easy">>]>>
          [] category = "Performance" ->
                <<[name |-> "slow",
                   keywords |-> <<"slow", "sluggish", "laggy", "lag">>],
                  [name |-> "long loading times",
                   keywords |-> <<"loading", "load", "wait", "waiting">>],
                  [name |-> "battery drain",
                   keywords |-> <<"battery", "drain", "power">>],
                  [name |-> "freezes",
                   keywords |-> <<"freeze", "frozen", "stuck", "hangs">>]>>
          [] category = "Features/Functionality" ->
                <<[name |-> "missing features",
                   keywords |-> <<"missing", "need", "want", "wish",
                                 "should have">>],
                  [name |-> "limited options",
                   keywords |-> <<"limited", "can't", "won't let me",
                                 "doesn't allow">>],
                  [name |-> "feature requests",
                   keywords |-> <<"add", "please add", "would be nice">>],
                  [name |-> "removed features",
                   keywords |-> <<"removed", "used to have", "no longer">>]>>
          [] category = "Search/Filter" ->
                <<[name |-> "search doesn't work",
                   keywords |-> <<"search", "searching", "can't find">>],
                  [name |-> "poor filtering",
                   keywords |-> <<"filter", "filtering", "sort", "sorting">>],
                  [name |-> "can't locate items",
                   keywords |-> <<"locate", "find", "where is">>]>>
          [] category = "Import/Export" ->
                <<[name |-> "export issues",
                   keywords |-> <<"export", "can't export", "won't export">>],
                  [name |-> "import problems",
                   keywords |-> <<"import", "can't import">>],
                  [name |-> "sharing broken",
                   keywords |-> <<"share", "sharing", "send">>],
                  [name |-> "pdf generation fails",
                   keywords |-> <<"pdf", "generate">>]>>
          [] category = "Multi-device/Sharing" ->
                <<[name |-> "doesn't sync across devices",
                   keywords |-> <<"devices", "phone", "ipad", "mac", "tablet">>],
                  [name |-> "no family sharing",
                   keywords |-> <<"family", "share", "multiple users">>],
                  [name |-> "can't share with others",
                   keywords |-> <<"share", "sharing", "collaborate">>]>>
          [] category = "Support/Help" ->
                <<[name |-> "no response from support",
                   keywords |-> <<"support", "no response", "didn't reply",
                                 "contacted">>],
                  [name |-> "poor documentation",
                   keywords |-> <<"help", "documentation", "instructions",
                                 "tutorial">>],
                  [name |-> "unresponsive developer",
                   keywords |-> <<"developer", "team", "contact">>]>>]

praise_patterns ==
    [category \in Range(CategoryOrder) |->
        CASE category = "Pricing/Monetization" ->
                <<[name |-> "good value",
                   keywords |-> <<"worth", "value", "reasonable", "fair price">>],
                  [name |-> "free version sufficient",
                   keywords |-> <<"free", "no cost", "without paying">>],
                  [name |-> "one-time purchase",
                   keywords |-> <<"one-time", "one time", "lifetime">>]>>
          [] category = "Bugs/Reliability" ->
                <<[name |-> "stable and reliable",
                   keywords |-> <<"stable", "reliable", "never crashes",
                                 "no bugs">>],
                  [name |-> "works perfectly",
                   keywords |-> <<"works", "working", "perfect", "flawless">>],
                  [name |-> "no data loss",
                   keywords |-> <<"safe", "secure", "never lost">>]>>
          [] category = "Sync/Backup" ->
                <<[name |-> "sync works great",
                   keywords |-> <<"sync", "syncs", "syncing", "seamless">>],
                  [name |-> "easy backup",
                   keywords |-> <<"backup", "backed up", "restore">>],
                  [name |-> "icloud integration",
                   keywords |-> <<"icloud", "cloud">>]>>
          [] category = "UI/UX" ->
                <<[name |-> "intuitive design",
                   keywords |-> <<"intuitive", "easy", "simple", "clean">>],
                  [name |-> "beautiful interface",
                   keywords |-> <<"beautiful", "gorgeous", "love the design">>],
                  [name |-> "easy to navigate",
                   keywords |-> <<"navigate", "find", "organized">>]>>
          [] category = "Performance" ->
                <<[name |-> "fast and responsive",
                   keywords |-> <<"fast", "quick", "instantly", "responsive">>],
                  [name |-> "smooth",
                   keywords |-> <<"smooth", "seamless", "snappy">>],
                  [name |-> "efficient",
                   keywords |-> <<"efficient", "optimized">>]>>
          [] category = "Features/Functionality" ->
                <<[name |-> "feature-rich",
                   keywords |-> <<"features", "everything", "complete",
                                 "comprehensive">>],
                  [name |-> "flexible",
                   keywords |-> <<"flexible", "customizable", "options">>],
                  [name |-> "powerful",
                   keywords |-> <<"powerful", "capable", "advanced">>]>>
          [] category = "Search/Filter" ->
                <<[name |-> "search works great",
                   keywords |-> <<"search", "find", "easy to find">>],
                  [name |-> "good filtering",
                   keywords |-> <<"filter", "sort", "organize">>]>>
          [] category = "Import/Export" ->
                <<[name |-> "easy export",
                   keywords |-> <<"export", "download", "save">>],
                  [name |-> "sharing works",
                   keywords |-> <<"share", "sharing", "send">>],
                  [name |-> "pdf generation",
                   keywords |-> <<"pdf", "report">>]>>
          [] category = "Multi-device/Sharing" ->
                <<[name |-> "works on all devices",
                   keywords |-> <<"devices", "phone", "ipad", "mac">>],
                  [name |-> "family sharing",
                   keywords |-> <<"family", "share", "multiple">>],
                  [name |-> "cross-platform",
                   keywords |-> <<"platform", "everywhere">>]>>
          [] category = "Support/Help" ->
                <<[name |-> "responsive support",
                   keywords |-> <<"support", "response", "helpful", "developer">>],
                  [name |-> "great documentation",
                   keywords |-> <<"help", "documentation", "tutorial">>],
                  [name |-> "active development",
                   keywords |-> <<"updates", "improving", "developer cares">>]>>]

push_keywords ==
    <<"cant", "wont", "doesnt work", "broken", "useless", "frustrated",
      "annoying", "terrible", "waste", "failed", "problem", "issue">>

pull_keywords ==
    <<"love", "great", "perfect", "exactly", "finally", "best", "favorite",
      "awesome", "amazing", "easy", "simple">>

anxiety_keywords ==
    <<"worried", "concern", "afraid", "risk", "lose", "lost", "scary",
      "unsure", "dont trust", "what if">>

habit_keywords ==
    <<"always", "used to", "familiar", "years", "long time", "accustomed",
      "comfortable", "switch from", "tried other">>

pain_keywords ==
    <<[name |-> "Missing features",
       keywords |-> <<"missing", "need", "wish", "want", "would be nice",
                     "should have", "please add">>],
      [name |-> "Too expensive",
       keywords |-> <<"expensive", "cost", "price", "too much", "overpriced",
                     "subscription">>],
      [name |-> "Doesnt work",
       keywords |-> <<"doesnt work", "not working", "broken", "crashes",
                     "fails", "error">>],
      [name |-> "Confusing",
       keywords |-> <<"confusing", "complicated", "hard to", "difficult",
                     "dont understand">>],
      [name |-> "Slow",
       keywords |-> <<"slow", "laggy", "takes forever", "waiting", "loading">>],
      [name |-> "Data loss",
       keywords |-> <<"lost", "disappeared", "deleted", "missing", "gone">>],
      [name |-> "No sync",
       keywords |-> <<"sync", "wont sync", "doesnt sync", "cloud", "backup">>],
      [name |-> "Poor support",
       keywords |-> <<"support", "no response", "no help", "ignored",
                     "developer">>]>>

win_keywords ==
    <<[name |-> "Easy to use",
       keywords |-> <<"easy", "simple", "intuitive", "straightforward",
                     "user-friendly">>],
      [name |-> "Fast",
       keywords |-> <<"fast", "quick", "instant", "immediately", "quickly">>],
      [name |-> "Feature-rich",
       keywords |-> <<"features", "everything", "comprehensive", "complete",
                     "all I need">>],
      [name |-> "Reliable",
       keywords |-> <<"reliable", "stable", "works great", "no issues",
                     "never crashes">>],
      [name |-> "Good value",
       keywords |-> <<"worth it", "value", "reasonable", "fair price",
                     "one-time">>],
      [name |-> "Great support",
       keywords |-> <<"support", "responsive", "helpful", "developer",
                     "quick response">>],
      [name |-> "Syncs well",
       keywords |-> <<"sync", "syncs", "cloud", "backup", "devices">>],
      [name |-> "Beautiful UI",
       keywords |-> <<"beautiful", "clean", "design", "interface",
                     "looks great">>]>>


---------------------------------------------------------------------------
(* The review corpus.  A row is [rating |-> 0..5, review |-> None or       *)
(* Some(body)]; the other columns (title, author, version, date) are read  *)
(* by no analysis.                                                         *)

\* A neutral stretch of text, used to build a review longer than the cap.
RECURSIVE Repeat(_, _)
Repeat(s, n) == IF n = 0 THEN "" ELSE s \o Repeat(s, n - 1)

LongReview ==
    "I opened it " \o Repeat("very ", 80) \o "many times and every time it crashes"

ReviewPool ==
    <<[rating |-> 1, review |-> Some("It crashes.")],
      [rating |-> 1, review |->
          Some("Broken again. Everything I saved is lost and gone, what a waste of money.")],
      [rating |-> 1, review |->
          Some("This app has been a terrible and expensive disappointment for my whole family. Oh well. Now broken.")],
      [rating |-> 2, review |->
          Some("App freezes and crashes every time I open it on my phone, my list is gone.")],
      [rating |-> 2, review |-> Some(LongReview)],
      [rating |-> 2, review |-> None],
      [rating |-> 3, review |->
          Some("I love the sync but it is broken, I worried about lost data and always used paper before.")],
      [rating |-> 4, review |->
          Some("I use this to track the value of my furniture in case of a fire")],
      [rating |-> 5, review |->
          Some("I love how fast this syncs across my devices!")]>>

\* A corpus of six 3-star reviews that each voice another worry.
ManyWorries ==
    <<[rating |-> 3, review |-> Some("I am worried that my notes could vanish one day.")],
      [rating |-> 3, review |-> Some("My main concern is the battery drain over time.")],
      [rating |-> 3, review |-> Some("I am afraid the next update changes everything.")],
      [rating |-> 3, review |-> Some("There is a risk that the export stops working.")],
      [rating |-> 3, review |-> Some("I could lose my whole archive with one tap here.")],
      [rating |-> 3, review |-> Some("It is scary how much access this app asks for.")]>>

\* The review texts of the corpora, and the empty body.
PoolTexts ==
    {ReviewPool[i].review[1] : i \in {j \in DOMAIN ReviewPool : ReviewPool[j].review # None}}
        \cup {ManyWorries[i].review[1] : i \in DOMAIN ManyWorries}
        \cup {""}

\* The review texts the samples of extract_jtbds_from_reviews are drawn from.
Furniture == "I use this to track the value of my furniture in case of a fire"

LongJobReview ==
    "I use this to keep all of my recipes in one place. It helps me with "
        \o Repeat("sorting ", 40) \o "everything."

\* A review in which every template matches, the first one twice.
FiveJobs ==
    "We use the app to share the shopping list at home. It helped me to waste much less food each week. Useful for families who cook every day. Whenever we need to buy something it is on the list. I open it daily so we can skip the long paper notes. We use it for planning the holiday meals as well."

JobTexts ==
    { Furniture,
      FiveJobs,
      "I USE this to track the value of my books and records.",
      "I use this to plan the meals for my whole family. It helps me with keeping the weekly budget low. Great for busy parents so I can relax a little more. When I am short of time it plans for me.",
      "We used the app for tracking all of our workouts. It helped me to stay motivated all winter. Perfect for runners who train alone. Whenever I want to check my progress it is there.",
      "I used it for scanning receipts at the office. This helps me find old invoices in seconds. Ideal for small business owners like me. I keep it open in order to file expenses right away.",
      LongJobReview }

MaxSample == 3

Samples == UNION {[1..n -> JobTexts] : n \in 0..MaxSample}

Limits == {1, 2, 100}

MaxReviews == 4

\* The corpora: up to MaxReviews rows of the pool, repeats allowed, in pool
\* order.
Corpora ==
    LET picks == UNION {[1..n -> DOMAIN ReviewPool] : n \in 0..MaxReviews}
        kept  == {p \in picks : \A i \in DOMAIN p : \A j \in DOMAIN p : i < j => p[i] <= p[j]}
    IN  {[i \in DOMAIN p |-> ReviewPool[p[i]]] : p \in kept}

---------------------------------------------------------------------------
(* src/analysis_free.py: the polarity pools *)

ReviewColumn(rows) == [i \in DOMAIN rows |-> rows[i].review[1]]

\* A negative pool that takes the 3-star rows in as well.
NegativeReviewsUpTo3(d) ==
    ReviewColumn(SelectSeq(d, LAMBDA row : row.rating <= 3 /\ row.review # None))

\* df[df['rating'] <= 2]['review'].dropna()
NegativeReviews(d) ==
    ReviewColumn(SelectSeq(d, LAMBDA row : row.rating <= 2 /\ row.review # None))

\* df[df['rating'] >= 4]['review'].dropna()
PositiveReviews(d) ==
    ReviewColumn(SelectSeq(d, LAMBDA row : row.rating >= 4 /\ row.review # None))

\* df['review'].dropna()
AllReviews(d) ==
    ReviewColumn(SelectSeq(d, LAMBDA row : row.review # None))

---------------------------------------------------------------------------
(* src/analysis_free.py: analyze_complaints_and_praise, cluster_complaints, *)
(* cluster_praise                                                           *)

TopThemes == 5
TopExamples == 3

\* The body of `for review in negative_reviews`: the sentence a review
\* contributes to a category, None if it contributes none.
Candidate(review, kws) ==
    LET kw == find_keyword_in_text(review, kws)
    IN  IF Truthy(kw)
        THEN extract_complete_sentence(review, kw[1], DefaultMaxLength)
        ELSE None

\* Candidate, evaluated once for every review text of the pool.
CandidateTable ==
    [review \in PoolTexts |->
        [category \in Range(CategoryOrder) |->
            Candidate(review, FEATURE_PATTERNS[category])]]

RECURSIVE MatchingReviews(_, _)
MatchingReviews(reviews, category) ==
    IF reviews = <<>> THEN <<>>
    ELSE LET s == CandidateTable[Head(reviews)][category]
         IN  (IF Truthy(s) THEN <<s[1]>> ELSE <<>>)
                 \o MatchingReviews(Tail(reviews), category)

\* `any(kw in review_lower for kw in theme_keywords)`
MatchesTheme(review, theme_keywords) ==
    LET review_lower == Lower(review)
    IN  \E i \in DOMAIN theme_keywords : Contains(review_lower, theme_keywords[i])

PatternsOf(polarity, category) ==
    IF polarity = "complaint" THEN complaint_patterns[category]
    ELSE praise_patterns[category]

CandidateSentences ==
    {CandidateTable[review][category][1] :
        <<review, category>> \in {rc \in PoolTexts \X Range(CategoryOrder) :
                                    Truthy(CandidateTable[rc[1]][rc[2]])}}

\* MatchesTheme, evaluated once for every candidate sentence of the pool: the
\* themes (by position in the category's pattern list) a sentence belongs to.
ThemeTable ==
    [review \in CandidateSentences |->
        [category \in Range(CategoryOrder) |->
            [polarity \in {"complaint", "praise"} |->
                {p \in DOMAIN PatternsOf(polarity, category) :
                    MatchesTheme(review, PatternsOf(polarity, category)[p].keywords)}]]]

\* A descending sort that moves equal keys to the front in reverse order.
RECURSIVE ReversingSortDesc(_, _)
ReversingSortDesc(seq, field) ==
    IF seq = <<>> THEN <<>>
    ELSE LET sorted == ReversingSortDesc(SubSeq(seq, 1, Len(seq) - 1), field)
             x      == seq[Len(seq)]
             before == Cardinality({i \in DOMAIN sorted : sorted[i][field] > x[field]})
         IN  SubSeq(sorted, 1, before) \o <<x>> \o SubSeq(sorted, before + 1, Len(sorted))

\* sorted(..., key=lambda x: x[field], reverse=True) and
\* list.sort(key=..., reverse=True): descending and stable.
RECURSIVE StableSortDesc(_, _)
StableSortDesc(seq, field) ==
    IF seq = <<>> THEN <<>>
    ELSE LET sorted == StableSortDesc(SubSeq(seq, 1, Len(seq) - 1), field)
             x      == seq[Len(seq)]
             before == Cardinality({i \in DOMAIN sorted : sorted[i][field] >= x[field]})
         IN  SubSeq(sorted, 1, before) \o <<x>> \o SubSeq(sorted, before + 1, Len(sorted))

\* A clustering that puts every review into the first theme it matches only.
FoundThemesPartition(reviews, category, polarity) ==
    LET patterns == PatternsOf(polarity, category)
        first(r) == Min(ThemeTable[r][category][polarity])
        matching(p) ==
            SelectSeq(reviews, LAMBDA r : /\ ThemeTable[r][category][polarity] # {}
                                          /\ first(r) = p)
        all == [p \in DOMAIN patterns |->
                   [name     |-> patterns[p].name,
                    count    |-> Len(matching(p)),
                    examples |-> FirstN(matching(p), TopExamples)]]
    IN  SelectSeq(all, LAMBDA theme : theme.count > 0)

\* The loop `for theme_name, theme_keywords in patterns` of cluster_complaints
\* and cluster_praise: one theme per pattern with at least one matching review.
FoundThemes(reviews, category, polarity) ==
    LET patterns == PatternsOf(polarity, category)
        matching(p) ==
            SelectSeq(reviews, LAMBDA r : p \in ThemeTable[r][category][polarity])
        all == [p \in DOMAIN patterns |->
                   [name     |-> patterns[p].name,
                    count    |-> Len(matching(p)),
                    examples |-> FirstN(matching(p), TopExamples)]]
    IN  SelectSeq(all, LAMBDA theme : theme.count > 0)

\* The themes left in the order of the pattern list.
KeepOrder(themes) == themes

\* `themes.sort(key=lambda x: x['count'], reverse=True)`
SortThemes(themes) == StableSortDesc(themes, "count")

cluster_complaints(reviews, category) ==
    FirstN(SortThemes(FoundThemes(reviews, category, "complaint")), TopThemes)

cluster_praise(reviews, category) ==
    FirstN(SortThemes(FoundThemes(reviews, category, "praise")), TopThemes)

\* A percentage that leaves out the factor 100.
Fraction(count, pool_size) == [num |-> count, den |-> pool_size]

\* (count / pool_size) * 100 as the exact rational num/den; den = 0 stands for
\* the ZeroDivisionError Python raises.
Percentage(count, pool_size) == [num |-> count * 100, den |-> pool_size]

\* An analysis that leaves out the categories for which no theme was found.
AnalyzePolarityThemedOnly(reviews, polarity) ==
    LET matching_reviews ==
            [category \in Range(CategoryOrder) |-> MatchingReviews(reviews, category)]
        themes(category) ==
            IF polarity = "complaint"
            THEN cluster_complaints(matching_reviews[category], category)
            ELSE cluster_praise(matching_reviews[category], category)
        item(category) ==
            [category    |-> category,
             total_count |-> Len(matching_reviews[category]),
             percentage  |-> Percentage(Len(matching_reviews[category]), Len(reviews)),
             themes      |-> themes(category)]
        hit == SelectSeq(CategoryOrder,
                         LAMBDA category : /\ Len(matching_reviews[category]) > 0
                                           /\ themes(category) # <<>>)
    IN  [i \in DOMAIN hit |-> item(hit[i])]

\* One polarity of analyze_complaints_and_praise: the dict, in insertion order,
\* as the sequence of its items.
AnalyzePolarity(reviews, polarity) ==
    LET matching_reviews ==
            [category \in Range(CategoryOrder) |-> MatchingReviews(reviews, category)]
        item(category) ==
            [category    |-> category,
             total_count |-> Len(matching_reviews[category]),
             percentage  |-> Percentage(Len(matching_reviews[category]), Len(reviews)),
             themes      |-> IF polarity = "complaint"
                             THEN cluster_complaints(matching_reviews[category], category)
                             ELSE cluster_praise(matching_reviews[category], category)]
        hit == SelectSeq(CategoryOrder,
                         LAMBDA category : Len(matching_reviews[category]) > 0)
    IN  [i \in DOMAIN hit |-> item(hit[i])]

\* A complaint analysis that adds the counts of a run to those of the run
\* before it.
analyze_complaints_accumulating(d) ==
    LET fresh == AnalyzePolarity(NegativeReviews(d), "complaint")
    IN  IF complaint_analysis = <<>> THEN fresh
        ELSE [i \in DOMAIN fresh |->
                 [fresh[i] EXCEPT !.total_count = @ + complaint_analysis[i].total_count]]

analyze_complaints(d) == AnalyzePolarity(NegativeReviews(d), "complaint")
analyze_praise(d) == AnalyzePolarity(PositiveReviews(d), "praise")

\* `sorted(complaint_analysis.items(), key=lambda x: x[1]['total_count'], reverse=True)`
SortCategories(analysis) == StableSortDesc(analysis, "total_count")

---------------------------------------------------------------------------
(* src/analysis_free.py: extract_jtbds_from_reviews *)

JobLimit == 100
MinStatementLength == 20
MaxStatementLength == 300
FullReviewLength == 300
StartLength == 30
TopJobs == 10

\* The templates without the "I use ... to ..." one.
job_patterns_without_use ==
    <<[groups |-> << <<"helps me", "help me", "helped me">>, <<" ">>,
                     <<"to ", "">>, <<"to ", "with ", "">> >>,
       min |-> 15, max |-> 150],
      [groups |-> << <<"great", "perfect", "useful", "helpful", "ideal">>,
                     <<" for ">> >>,
       min |-> 15, max |-> 100],
      [groups |-> << <<"when", "whenever">>, <<" ">>, <<"I", "we">>, <<" ">>,
                     <<"need to", "want to", "have to", "am", "was">>, <<" ">> >>,
       min |-> 15, max |-> 150],
      [groups |-> << <<"so I can", "so we can", "in order to", "to help me">>,
                     <<" ">> >>,
       min |-> 15, max |-> 100]>>

\* The regular expressions of job_patterns, matched with re.IGNORECASE: each
\* is a sequence of groups of alternatives, in the order the regex engine
\* tries them ("" is an optional group left out), followed by a greedy run of
\* min to max characters of [^.!?].
job_patterns ==
    <<[groups |-> << <<"I use", "I used", "We use", "We used">>, <<" ">>,
                     <<"this", "it", "the app">>, <<" ">>,
                     <<"to", "for">>, <<" ">> >>,
       min |-> 20, max |-> 150],
      [groups |-> << <<"helps me", "help me", "helped me">>, <<" ">>,
                     <<"to ", "">>, <<"to ", "with ", "">> >>,
       min |-> 15, max |-> 150],
      [groups |-> << <<"great", "perfect", "useful", "helpful", "ideal">>,
                     <<" for ">> >>,
       min |-> 15, max |-> 100],
      [groups |-> << <<"when", "whenever">>, <<" ">>, <<"I", "we">>, <<" ">>,
                     <<"need to", "want to", "have to", "am", "was">>, <<" ">> >>,
       min |-> 15, max |-> 150],
      [groups |-> << <<"so I can", "so we can", "in order to", "to help me">>,
                     <<" ">> >>,
       min |-> 15, max |-> 100]>>

\* The length of the run of characters other than . ! ? that starts at pos.
RunLength(t, pos) ==
    LET stops == {k \in pos..Len(t) : IsTerminal(Char(t, k))}
    IN  IF stops = {} THEN Len(t) - pos + 1 ELSE Min(stops) - pos

\* The regex engine at position pos with the groups from g on still to match:
\* the position after the match, 0 if there is none.  Alternatives are tried
\* in order and the first one that lets the rest match is kept.
RECURSIVE MatchGroups(_, _, _, _)
MatchGroups(t_lower, pos, pattern, g) ==
    IF g > Len(pattern.groups)
    THEN LET run == RunLength(t_lower, pos)
         IN  IF run >= pattern.min
             THEN pos + (IF run < pattern.max THEN run ELSE pattern.max)
             ELSE 0
    ELSE LET alts == pattern.groups[g]
             ends == [a \in DOMAIN alts |->
                         IF /\ pos + Len(alts[a]) - 1 <= Len(t_lower)
                            /\ SubSeq(t_lower, pos, pos + Len(alts[a]) - 1) = Lower(alts[a])
                         THEN MatchGroups(t_lower, pos + Len(alts[a]), pattern, g + 1)
                         ELSE 0]
             ok   == {a \in DOMAIN alts : ends[a] # 0}
         IN  IF ok = {} THEN 0 ELSE ends[Min(ok)]

\* `for match in re.finditer(pattern, review_text, re.IGNORECASE)`, left at
\* the first match (`break`): match.group(0), None if there is no match.
FirstMatch(review_text, pattern) ==
    LET t_lower == Lower(review_text)
        ends    == [i \in 1..Len(review_text) |-> MatchGroups(t_lower, i, pattern, 1)]
        starts  == {i \in 1..Len(review_text) : ends[i] # 0}
    IN  IF starts = {} THEN None
        ELSE Some(SubSeq(review_text, Min(starts), ends[Min(starts)] - 1))

\* A pattern loop body that records the sentence whatever its length.
JobStatementAnyLength(review_text, pattern) ==
    LET match == FirstMatch(review_text, pattern)
    IN  IF match = None THEN None
        ELSE LET sentences == SplitSentences(review_text)
                 holding   == {i \in DOMAIN sentences :
                                  Contains(Lower(sentences[i]), Lower(match[1]))}
             IN  IF holding = {} THEN None
                 ELSE Some([statement   |-> Strip(sentences[Min(holding)]),
                            full_review |-> FirstN(review_text, FullReviewLength)])

\* The statement one pattern adds for one review, None if it adds none: the
\* first sentence that contains the match, kept if its length is in range.
JobStatement(review_text, pattern) ==
    LET match == FirstMatch(review_text, pattern)
    IN  IF match = None THEN None
        ELSE LET sentences == SplitSentences(review_text)
                 holding   == {i \in DOMAIN sentences :
                                  Contains(Lower(sentences[i]), Lower(match[1]))}
             IN  IF holding = {} THEN None
                 ELSE LET clean_sentence == Strip(sentences[Min(holding)])
                      IN  IF /\ MinStatementLength < Len(clean_sentence)
                             /\ Len(clean_sentence) < MaxStatementLength
                          THEN Some([statement   |-> clean_sentence,
                                     full_review |-> FirstN(review_text, FullReviewLength)])
                          ELSE None

\* A review loop body that leaves the pattern loop at the first statement it
\* records.
FirstStatementOnly(review_text) ==
    LET added == [p \in DOMAIN job_patterns |-> JobStatement(review_text, job_patterns[p])]
        hit   == SelectSeq([p \in DOMAIN job_patterns |-> p], LAMBDA p : added[p] # None)
    IN  [i \in DOMAIN FirstN(hit, 1) |-> added[hit[i]][1]]

\* The statements a review adds, one pattern after the other.
StatementsOf(review_text) ==
    LET added == [p \in DOMAIN job_patterns |-> JobStatement(review_text, job_patterns[p])]
        hit   == SelectSeq([p \in DOMAIN job_patterns |-> p], LAMBDA p : added[p] # None)
    IN  [i \in DOMAIN hit |-> added[hit[i]][1]]

\* StatementsOf, evaluated once for every review text of the pool.
JobTable == [review \in PoolTexts \cup JobTexts |-> StatementsOf(review)]

RECURSIVE CollectStatements(_)
CollectStatements(reviews) ==
    IF reviews = <<>> THEN <<>>
    ELSE JobTable[Head(reviews)] \o CollectStatements(Tail(reviews))

\* No deduplication: every recorded statement is kept.
KeepAll(statements, seen_starts) == statements

\* The loop over jtbd_statements that keeps the first statement of every
\* lowercased 30-character start.
RECURSIVE Deduplicate(_, _)
Deduplicate(statements, seen_starts) ==
    IF statements = <<>> THEN <<>>
    ELSE LET start == Lower(FirstN(Head(statements).statement, StartLength))
         IN  IF start \in seen_starts
             THEN Deduplicate(Tail(statements), seen_starts)
             ELSE <<Head(statements)>>
                      \o Deduplicate(Tail(statements), seen_starts \cup {start})

\* An extraction that looks at the whole sample.
extract_jtbds_ignoring_limit(reviews, limit) ==
    FirstN(Deduplicate(CollectStatements(reviews), {}), TopJobs)

extract_jtbds_from_reviews(reviews, limit) ==
    FirstN(Deduplicate(CollectStatements(FirstN(reviews, limit)), {}), TopJobs)

---------------------------------------------------------------------------
(* src/analysis_free.py: analyze_forces_of_progress *)

ScenarioMaxLength == 250
MinScenarioLength == 30
TopScenarios == 5

\* items[:n] without the set: repeated items stay.
ListPrefix(items, n) == {FirstN(items, n)}

\* list(set(items))[:n]: the set's iteration order is not fixed, so every
\* arrangement of n of its members (all of them if it has fewer) can come out.
SetPrefixes(items, n) ==
    LET members == Range(items)
        size    == IF Cardinality(members) < n THEN Cardinality(members) ELSE n
    IN  {s \in [1..size -> members] : \A i \in 1..size : \A j \in 1..size :
                                          i # j => s[i] # s[j]}

\* The sequences that take their i-th element from the i-th set.
RECURSIVE Product(_)
Product(choices) ==
    IF choices = <<>> THEN {<<>>}
    ELSE {<<x>> \o rest : x \in Head(choices), rest \in Product(Tail(choices))}

\* A keyword loop that keeps the sentence whatever its length.
RECURSIVE ForceScenarioAnyLength(_, _, _)
ForceScenarioAnyLength(review, review_lower, kws) ==
    IF kws = <<>> THEN None
    ELSE IF Contains(review_lower, Head(kws))
    THEN LET s == extract_complete_sentence(review, Head(kws), ScenarioMaxLength)
         IN  IF Truthy(s) THEN s
             ELSE ForceScenarioAnyLength(review, review_lower, Tail(kws))
    ELSE ForceScenarioAnyLength(review, review_lower, Tail(kws))

\* The loop `for keyword in ..._keywords` over one review: the scenario the
\* review adds to the force, None if it adds none.  The loop ends (`break`)
\* only once a sentence has been kept.
RECURSIVE ForceScenario(_, _, _)
ForceScenario(review, review_lower, kws) ==
    IF kws = <<>> THEN None
    ELSE IF Contains(review_lower, Head(kws))
    THEN LET s == extract_complete_sentence(review, Head(kws), ScenarioMaxLength)
         IN  IF Truthy(s) /\ Len(s[1]) > MinScenarioLength THEN s
             ELSE ForceScenario(review, review_lower, Tail(kws))
    ELSE ForceScenario(review, review_lower, Tail(kws))

ForceKeywords ==
    [push |-> push_keywords, pull |-> pull_keywords,
     anxiety |-> anxiety_keywords, habit |-> habit_keywords]

\* ForceScenario, evaluated once for every review text of the pool.
ScenarioTable ==
    [review \in PoolTexts |->
        [force \in DOMAIN ForceKeywords |->
            ForceScenario(review, Lower(review), ForceKeywords[force])]]

\* The sentences a keyword loop without `break` would keep for one review:
\* one for every keyword found whose sentence is long enough.
RECURSIVE EveryKeywordScenarios(_, _, _)
EveryKeywordScenarios(review, review_lower, kws) ==
    IF kws = <<>> THEN <<>>
    ELSE LET s == IF Contains(review_lower, Head(kws))
                  THEN extract_complete_sentence(review, Head(kws), ScenarioMaxLength)
                  ELSE None
         IN  (IF Truthy(s) /\ Len(s[1]) > MinScenarioLength THEN <<s[1]>> ELSE <<>>)
                 \o EveryKeywordScenarios(review, review_lower, Tail(kws))

EveryKeywordTable ==
    [review \in PoolTexts |->
        [force \in DOMAIN ForceKeywords |->
            EveryKeywordScenarios(review, Lower(review), ForceKeywords[force])]]

\* Scenario lists that take a sentence for every keyword found in a review.
RECURSIVE ForceScenariosEveryKeyword(_, _)
ForceScenariosEveryKeyword(reviews, force) ==
    IF reviews = <<>> THEN <<>>
    ELSE EveryKeywordTable[Head(reviews)][force]
             \o ForceScenariosEveryKeyword(Tail(reviews), force)

RECURSIVE ForceScenarios(_, _)
ForceScenarios(reviews, force) ==
    IF reviews = <<>> THEN <<>>
    ELSE LET s == ScenarioTable[Head(reviews)][force]
         IN  (IF s # None THEN <<s[1]>> ELSE <<>>)
                 \o ForceScenarios(Tail(reviews), force)

ForceLabels ==
    [push    |-> "Push (Current Solution Fails)",
     pull    |-> "Pull (Why This App)",
     anxiety |-> "Anxiety (Switching Fears)",
     habit   |-> "Habit (Status Quo)"]

ForceInsights ==
    [push    |-> " mentions of current solution failures",
     pull    |-> " mentions of specific attractions",
     anxiety |-> " mentions of concerns/fears",
     habit   |-> " mentions of past solutions/habits"]

ForceOrder == <<"push", "pull", "anxiety", "habit">>

\* The pool each force is computed over.
ForcePool(d, force) ==
    CASE force = "push" -> NegativeReviews(d)
      [] force = "pull" -> PositiveReviews(d)
      [] OTHER -> AllReviews(d)

\* A forces analysis that counts the distinct scenarios of a force.
analyze_forces_counting_distinct(d) ==
    LET found_in == [force \in DOMAIN ForceKeywords |->
                        ForceScenarios(ForcePool(d, force), force)]
        hit == SelectSeq(ForceOrder, LAMBDA force : Len(found_in[force]) > 0)
        items(force) ==
            {[force     |-> force,
              label     |-> ForceLabels[force],
              count     |-> Cardinality(Range(found_in[force])),
              scenarios |-> shown,
              insight   |-> ToString(Cardinality(Range(found_in[force])))
                                \o ForceInsights[force]] :
                shown \in SetPrefixes(found_in[force], TopScenarios)}
    IN  Product([i \in DOMAIN hit |-> items(hit[i])])

\* The results analyze_forces_of_progress can return: the dict, in insertion
\* order, as the sequence of its items.
analyze_forces_of_progress(d) ==
    LET found_in == [force \in DOMAIN ForceKeywords |->
                        ForceScenarios(ForcePool(d, force), force)]
        hit == SelectSeq(ForceOrder, LAMBDA force : Len(found_in[force]) > 0)
        items(force) ==
            {[force     |-> force,
              label     |-> ForceLabels[force],
              count     |-> Len(found_in[force]),
              scenarios |-> shown,
              insight   |-> ToString(Len(found_in[force])) \o ForceInsights[force]] :
                shown \in SetPrefixes(found_in[force], TopScenarios)}
    IN  Product([i \in DOMAIN hit |-> items(hit[i])])

---------------------------------------------------------------------------
(* src/analysis_free.py: analyze_outcomes *)

OutcomeMaxLength == 200
TopOutcomeExamples == 3

\* A keyword loop that tries the first keyword of the list only.
OutcomeExampleFirstKeywordOnly(review, review_lower, kws) ==
    IF kws = <<>> THEN None
    ELSE IF Contains(review_lower, Head(kws))
    THEN LET s == extract_complete_sentence(review, Head(kws), OutcomeMaxLength)
         IN  IF Truthy(s) THEN s ELSE None
    ELSE None

\* The loop `for keyword in keywords` over one review: the example the review
\* adds to the dimension, None if it adds none.  The loop ends (`break`) at
\* the first keyword found in the review.
RECURSIVE OutcomeExample(_, _, _)
OutcomeExample(review, review_lower, kws) ==
    IF kws = <<>> THEN None
    ELSE IF Contains(review_lower, Head(kws))
    THEN LET s == extract_complete_sentence(review, Head(kws), OutcomeMaxLength)
         IN  IF Truthy(s) THEN s ELSE None
    ELSE OutcomeExample(review, review_lower, Tail(kws))

\* OutcomeExample, evaluated once for every review text of the pool.
PainTable ==
    [review \in PoolTexts |->
        [p \in DOMAIN pain_keywords |->
            OutcomeExample(review, Lower(review), pain_keywords[p].keywords)]]

WinTable ==
    [review \in PoolTexts |->
        [p \in DOMAIN win_keywords |->
            OutcomeExample(review, Lower(review), win_keywords[p].keywords)]]

RECURSIVE OutcomeExamples(_, _, _)
OutcomeExamples(reviews, table, p) ==
    IF reviews = <<>> THEN <<>>
    ELSE LET s == table[Head(reviews)][p]
         IN  (IF s # None THEN <<s[1]>> ELSE <<>>)
                 \o OutcomeExamples(Tail(reviews), table, p)

\* A reading of analyze_outcomes in which a review is filed under one
\* dimension only, the first of the vocabulary it hits.
AnalyzeDimensionsExclusive(reviews, dimensions, table) ==
    LET first_hit(r) == {p \in DOMAIN dimensions :
                            /\ table[r][p] # None
                            /\ \A q \in 1..(p - 1) : table[r][q] = None}
        mine(p) == SelectSeq(reviews, LAMBDA r : p \in first_hit(r))
        examples == [p \in DOMAIN dimensions |-> OutcomeExamples(mine(p), table, p)]
        hit == SelectSeq([p \in DOMAIN dimensions |-> p],
                         LAMBDA p : Len(examples[p]) > 0)
        items(p) ==
            {[name       |-> dimensions[p].name,
              count      |-> Len(examples[p]),
              percentage |-> Percentage(Len(examples[p]), Len(reviews)),
              examples   |-> shown] :
                shown \in SetPrefixes(examples[p], TopOutcomeExamples)}
    IN  Product([i \in DOMAIN hit |-> items(hit[i])])

\* One half of analyze_outcomes (pain points over the negative pool, wins over
\* the positive pool): the results it can return.
AnalyzeDimensions(reviews, dimensions, table) ==
    LET examples == [p \in DOMAIN dimensions |-> OutcomeExamples(reviews, table, p)]
        hit == SelectSeq([p \in DOMAIN dimensions |-> p],
                         LAMBDA p : Len(examples[p]) > 0)
        items(p) ==
            {[name       |-> dimensions[p].name,
              count      |-> Len(examples[p]),
              percentage |-> Percentage(Len(examples[p]), Len(reviews)),
              examples   |-> shown] :
                shown \in SetPrefixes(examples[p], TopOutcomeExamples)}
    IN  Product([i \in DOMAIN hit |-> items(hit[i])])

analyze_pain_points(d) == AnalyzeDimensions(NegativeReviews(d), pain_keywords, PainTable)
analyze_wins(d) == AnalyzeDimensions(PositiveReviews(d), win_keywords, WinTable)

---------------------------------------------------------------------------
(* src/scraper.py: scrape_app_reviews, called without a progress callback *)

\* Feed entries: records that hold some of the fields the scraper reads.
Complete ==
    [im_rating  |-> "5",
     title      |-> "Great",
     content    |-> <<[value |-> "I love how fast this syncs across my devices!"]>>,
     author     |-> "ann",
     im_version |-> "2.1",
     updated    |-> "2024-01-01"]

\* An entry without rating and without content.
Bare == [title |-> "Hm", author |-> "bob"]

\* An entry whose rating is not a number: int() raises ValueError.
BadRating == [im_rating |-> "five", title |-> "Odd", content |-> <<[value |-> "Fine."]>>]

\* An entry with an empty content list: content[0] raises IndexError.
EmptyContent == [im_rating |-> "1", title |-> "Blank", content |-> <<>>]

\* What feedparser.parse gives for a page: the entries parsed, or an exception.
Fetched(entries) == [raised |-> FALSE, entries |-> entries]

FetchError == [raised |-> TRUE, entries |-> <<>>]

PageOutcomes ==
    { Fetched(<<>>),
      Fetched(<<Complete>>),
      Fetched(<<Bare, Complete>>),
      Fetched(<<Complete, BadRating, Bare>>),
      Fetched(<<EmptyContent>>),
      FetchError }

MaxFeedPages == 3

Feeds == [1..MaxFeedPages -> PageOutcomes]

MaxPagesArguments == (0 - 1)..MaxFeedPages

\* `entry.get(key, default)`
Get(entry, key, default) == IF key \in DOMAIN entry THEN entry[key] ELSE default

Digits == [s \in {"0", "1", "2", "3", "4", "5"} |->
              CASE s = "0" -> 0 [] s = "1" -> 1 [] s = "2" -> 2
                [] s = "3" -> 3 [] s = "4" -> 4 [] s = "5" -> 5]

\* The dict built from one entry, or the exception raised while building it:
\* int() of a rating that is no number, content[0] of an empty content list.
ConvertEntry(entry) ==
    LET rating_raises  == "im_rating" \in DOMAIN entry /\ entry.im_rating \notin DOMAIN Digits
        content_raises == "content" \in DOMAIN entry /\ entry.content = <<>>
    IN  IF rating_raises \/ content_raises
        THEN [raised |-> TRUE, row |-> <<>>]
        ELSE [raised |-> FALSE,
              row |-> <<[rating  |-> IF "im_rating" \in DOMAIN entry
                                     THEN Digits[entry.im_rating] ELSE 0,
                         title   |-> Get(entry, "title", ""),
                         review  |-> IF "content" \in DOMAIN entry
                                     THEN entry.content[1].value ELSE "",
                         author  |-> Get(entry, "author", ""),
                         version |-> Get(entry, "im_version", ""),
                         date    |-> Get(entry, "updated", "")]>>]

\* `for entry in feed.entries: all_reviews.append({...})`: the list after the
\* loop, and whether the loop was left by an exception.
RECURSIVE AppendEntries(_, _)
AppendEntries(collected, entries) ==
    IF entries = <<>> THEN [raised |-> FALSE, all_reviews |-> collected]
    ELSE LET c == ConvertEntry(Head(entries))
         IN  IF c.raised THEN [raised |-> TRUE, all_reviews |-> collected]
             ELSE AppendEntries(collected \o c.row, Tail(entries))

\* A loop that goes on to the next page when a page has no entries.
StopsOnErrorOnly(fetched, appending) == fetched.raised \/ appending.raised

\* Whether the iteration leaves the loop: `if not feed.entries: break`, and
\* the `break` of the except clause.
Stops(fetched, appending) ==
    fetched.raised \/ fetched.entries = <<>> \/ appending.raised

\* The scraper is not in use.
ScrapeIdle ==
    /\ feed = <<>>
    /\ max_pages = 0
    /\ page = 1
    /\ all_reviews = <<>>
    /\ requested = <<>>
    /\ pc = "idle"
    /\ scraped = None

---------------------------------------------------------------------------

(* Inputs of the text functions *)

MaxPieces == 3

Pieces ==
    { "It crashes.",
      "Crash on start!",
      "The app keeps crashing every single time I open the camera.",
      "Fine otherwise",
      "OK." }

RECURSIVE JoinPieces(_)
JoinPieces(ps) ==
    IF ps = <<>> THEN ""
    ELSE IF Len(ps) = 1 THEN ps[1]
    ELSE ps[1] \o " " \o JoinPieces(Tail(ps))

Texts == {JoinPieces(ps) : ps \in UNION {[1..n -> Pieces] : n \in 0..MaxPieces}}

Keywords == {"crash", "Crash", "ok. it", "sync"}

MaxLengths == {12, DefaultMaxLength}

KeywordLists(k) == {<<k, "ok">>, <<"ok", k>>}

---------------------------------------------------------------------------
(* The text functions applied to drawn inputs *)

InitText ==
    /\ ScrapeIdle
    /\ text \in Texts
    /\ keyword \in Keywords
    /\ keywords \in KeywordLists(keyword)
    /\ max_length \in MaxLengths
    /\ found = None
    /\ sentence = None
    /\ called = {}
    /\ df = <<>>
    /\ complaint_analysis = <<>>
    /\ praise_analysis = <<>>
    /\ sorted_complaints = <<>>
    /\ sorted_praise = <<>>
    /\ jtbd_statements = <<>>
    /\ forces_analysis = <<>>
    /\ pain_points = <<>>
    /\ wins = <<>>
    /\ job_reviews = <<>>
    /\ job_limit = JobLimit

FindKeywordInText ==
    /\ found' = find_keyword_in_text(text, keywords)
    /\ called' = called \cup {"find_keyword_in_text"}
    /\ UNCHANGED <<text, keyword, keywords, max_length, sentence, analysis_vars, job_vars, scrape_vars>>

ExtractCompleteSentence ==
    /\ sentence' = extract_complete_sentence(text, keyword, max_length)
    /\ called' = called \cup {"extract_complete_sentence"}
    /\ UNCHANGED <<text, keyword, keywords, max_length, found, analysis_vars, job_vars, scrape_vars>>

NextText == FindKeywordInText \/ ExtractCompleteSentence

SpecText == InitText /\ [][NextText]_vars

---------------------------------------------------------------------------
(* scrape_app_reviews run against a feed *)

InitScrape ==
    /\ feed \in Feeds
    /\ max_pages \in MaxPagesArguments
    /\ page = 1
    /\ all_reviews = <<>>
    /\ requested = <<>>
    /\ pc = "loop"
    /\ scraped = None
    /\ called = {}
    /\ df = <<>>
    /\ complaint_analysis = <<>>
    /\ praise_analysis = <<>>
    /\ sorted_complaints = <<>>
    /\ sorted_praise = <<>>
    /\ jtbd_statements = <<>>
    /\ forces_analysis = <<>>
    /\ pain_points = <<>>
    /\ wins = <<>>
    /\ job_reviews = <<>>
    /\ job_limit = JobLimit
    /\ text = ""
    /\ keyword = ""
    /\ keywords = <<>>
    /\ max_length = DefaultMaxLength
    /\ found = None
    /\ sentence = None

\* One iteration of `for page in range(1, max_pages + 1)`: the page is
\* fetched and its entries are appended, up to the first exception.
RequestPage ==
    /\ pc = "loop"
    /\ page <= max_pages
    /\ requested' = Append(requested, page)
    /\ LET fetched   == feed[page]
           appending == AppendEntries(all_reviews, fetched.entries)
       IN  /\ all_reviews' = appending.all_reviews
           /\ IF Stops(fetched, appending)
              THEN pc' = "break" /\ page' = page
              ELSE pc' = "loop" /\ page' = page + 1
    /\ UNCHANGED <<feed, max_pages, scraped, called, text_vars, analysis_vars, job_vars>>

\* `return pd.DataFrame(all_reviews)`, after a break or the last page.
ReturnReviews ==
    /\ pc = "break" \/ (pc = "loop" /\ page > max_pages)
    /\ scraped' = Some(all_reviews)
    /\ pc' = "returned"
    /\ called' = called \cup {"scrape_app_reviews"}
    /\ UNCHANGED <<feed, max_pages, page, all_reviews, requested, text_vars,
                   analysis_vars, job_vars>>

NextScrape == RequestPage \/ ReturnReviews

SpecScrape == InitScrape /\ [][NextScrape]_vars

\* The loop is sequential code: it takes its next step as long as it has one
\* (a fetch is taken to come back, with a feed or with an exception).
SpecScrapeLive == SpecScrape /\ WF_vars(NextScrape)

---------------------------------------------------------------------------

(* extract_jtbds_from_reviews applied to drawn samples *)

InitJobs ==
    /\ ScrapeIdle
    /\ job_reviews \in Samples
    /\ job_limit \in Limits
    /\ jtbd_statements = <<>>
    /\ called = {}
    /\ df = <<>>
    /\ complaint_analysis = <<>>
    /\ praise_analysis = <<>>
    /\ sorted_complaints = <<>>
    /\ sorted_praise = <<>>
    /\ forces_analysis = <<>>
    /\ pain_points = <<>>
    /\ wins = <<>>
    /\ text = ""
    /\ keyword = ""
    /\ keywords = <<>>
    /\ max_length = DefaultMaxLength
    /\ found = None
    /\ sentence = None

ExtractJtbds ==
    /\ jtbd_statements' = extract_jtbds_from_reviews(job_reviews, job_limit)
    /\ called' = called \cup {"extract_jtbds_from_reviews"}
    /\ UNCHANGED <<df, complaint_analysis, praise_analysis, sorted_complaints,
                   sorted_praise, forces_analysis, pain_points, wins, text_vars,
                   job_vars, scrape_vars>>

NextJobs == ExtractJtbds

SpecJobs == InitJobs /\ [][NextJobs]_vars

---------------------------------------------------------------------------
(* analyze_forces_of_progress applied to a corpus, the corpus of worries *)
(* included                                                              *)

InitForces ==
    /\ ScrapeIdle
    /\ df \in Corpora \cup {ManyWorries}
    /\ forces_analysis = <<>>
    /\ called = {}
    /\ complaint_analysis = <<>>
    /\ praise_analysis = <<>>
    /\ sorted_complaints = <<>>
    /\ sorted_praise = <<>>
    /\ jtbd_statements = <<>>
    /\ pain_points = <<>>
    /\ wins = <<>>
    /\ job_reviews = <<>>
    /\ job_limit = JobLimit
    /\ text = ""
    /\ keyword = ""
    /\ keywords = <<>>
    /\ max_length = DefaultMaxLength
    /\ found = None
    /\ sentence = None

AnalyzeForcesOfProgress ==
    /\ forces_analysis' \in analyze_forces_of_progress(df)
    /\ called' = called \cup {"analyze_forces_of_progress"}
    /\ UNCHANGED <<df, complaint_analysis, praise_analysis, sorted_complaints,
                   sorted_praise, jtbd_statements, pain_points, wins, text_vars,
                   job_vars, scrape_vars>>

NextForces == AnalyzeForcesOfProgress

SpecForces == InitForces /\ [][NextForces]_vars

---------------------------------------------------------------------------
(* The analyses applied to a corpus *)

Init ==
    /\ ScrapeIdle
    /\ df \in Corpora
    /\ complaint_analysis = <<>>
    /\ praise_analysis = <<>>
    /\ sorted_complaints = <<>>
    /\ sorted_praise = <<>>
    /\ jtbd_statements = <<>>
    /\ forces_analysis = <<>>
    /\ pain_points = <<>>
    /\ wins = <<>>
    /\ job_reviews = <<>>
    /\ job_limit = JobLimit
    /\ called = {}
    /\ text = ""
    /\ keyword = ""
    /\ keywords = <<>>
    /\ max_length = DefaultMaxLength
    /\ found = None
    /\ sentence = None

\* run_free_analysis: the complaint/praise analysis, the two presentation
\* orders, the job statements and the forces analysis, computed from the
\* corpus.  The text_sentiment column it adds to df is read by no analysis.
RunFreeAnalysis ==
    /\ complaint_analysis' = analyze_complaints(df)
    /\ praise_analysis' = analyze_praise(df)
    /\ sorted_complaints' = SortCategories(complaint_analysis')
    /\ sorted_praise' = SortCategories(praise_analysis')
    /\ jtbd_statements' = extract_jtbds_from_reviews(PositiveReviews(df), JobLimit)
    /\ forces_analysis' \in analyze_forces_of_progress(df)
    /\ called' = called \cup {"run_free_analysis"}
    /\ UNCHANGED <<df, pain_points, wins, text_vars, job_vars, scrape_vars>>

AnalyzeOutcomes ==
    /\ pain_points' \in analyze_pain_points(df)
    /\ wins' \in analyze_wins(df)
    /\ called' = called \cup {"analyze_outcomes"}
    /\ UNCHANGED <<df, complaint_analysis, praise_analysis, sorted_complaints,
                   sorted_praise, jtbd_statements, forces_analysis, text_vars,
                   job_vars, scrape_vars>>

Next == RunFreeAnalysis \/ AnalyzeOutcomes

Spec == Init /\ [][Next]_vars

---------------------------------------------------------------------------
(* Properties of the text functions (checked under SpecText) *)

\* The sentences of `text` (1-based) in which the keyword occurs, as
\* extract_complete_sentence tests it.
SentencesWithKeyword ==
    LET sentences == SplitSentences(text)
    IN  {i \in 1..Len(sentences) : Contains(Lower(sentences[i]), keyword)}

\* C1: find_keyword_in_text returns the first keyword of the list whose
\* lowercase form is a substring of the lowercased text, and None when no
\* keyword qualifies, whatever the letter case of the keywords.
C1_FirstKeywordCaseInsensitive ==
    "find_keyword_in_text" \in called =>
        LET hits == {i \in 1..Len(keywords) :
                        Contains(Lower(text), Lower(keywords[i]))}
        IN  found = IF hits = {} THEN None ELSE Some(keywords[Min(hits)])

\* C2: extract_complete_sentence returns None if and only if the keyword does
\* not occur in the text under case-insensitive substring comparison.
C2_NoneIffKeywordAbsent ==
    "extract_complete_sentence" \in called =>
        ((sentence = None) <=> ~Contains(Lower(text), Lower(keyword)))

\* C3: a returned result is built (padded and capped) around the first
\* sentence of the text that contains the keyword, never around a later one.
C3_BuiltAroundFirstSentence ==
    ("extract_complete_sentence" \in called /\ sentence # None) =>
        LET holding == SentencesWithKeyword
        IN  /\ holding # {}
            /\ \A i \in holding :
                  (\A j \in holding : i <= j) =>
                      sentence = Some(CapLength(PadSentence(SplitSentences(text), i),
                                                max_length))

\* A result was returned for a text in which a later sentence holds the
\* keyword too, and building around that one would have given another result.
C3_Witness ==
    /\ "extract_complete_sentence" \in called
    /\ sentence # None
    /\ \E j \in SentencesWithKeyword :
          /\ j > Min(SentencesWithKeyword)
          /\ sentence # Some(CapLength(PadSentence(SplitSentences(text), j),
                                       max_length))

\* The sentences lo..hi of the text, stripped and joined by single spaces.
RECURSIVE JoinSentences(_, _, _)
JoinSentences(sentences, lo, hi) ==
    IF lo = hi THEN Strip(sentences[lo])
    ELSE Strip(sentences[lo]) \o " " \o JoinSentences(sentences, lo + 1, hi)

\* The selected sentence with the neighbours it gets: none from 50 characters
\* on; below, the next one if there is one, and the previous one if there is
\* one and the result is still under 50 characters.
PaddedRun ==
    LET sentences == SplitSentences(text)
        i         == Min(SentencesWithKeyword)
        hi        == IF Len(Strip(sentences[i])) < 50 /\ i < Len(sentences)
                     THEN i + 1 ELSE i
        lo        == IF Len(JoinSentences(sentences, i, hi)) < 50 /\ i > 1
                     THEN i - 1 ELSE i
    IN  [lo |-> lo, hi |-> hi, joined |-> JoinSentences(sentences, lo, hi)]

\* C25: a selected sentence of 50 or more characters is returned without
\* neighbours; one under 50 characters gets the next sentence appended when
\* there is one, and the previous sentence prepended when there is one only if
\* the result is still under 50 characters after that; the result before the
\* cap is 1 to 3 consecutive sentences of the text that include the selected
\* one.
C25_ShortSentencePadding ==
    ("extract_complete_sentence" \in called /\ sentence # None) =>
        /\ sentence = Some(CapLength(PaddedRun.joined, max_length))
        /\ PaddedRun.lo <= Min(SentencesWithKeyword)
        /\ Min(SentencesWithKeyword) <= PaddedRun.hi
        /\ PaddedRun.hi - PaddedRun.lo <= 2
        /\ Len(Strip(SplitSentences(text)[Min(SentencesWithKeyword)])) >= 50
              => PaddedRun.lo = PaddedRun.hi

\* A short sentence between two others was returned with the next one only:
\* with it the result reached 50 characters, and nothing was cut.
C25_Witness ==
    /\ "extract_complete_sentence" \in called
    /\ sentence # None
    /\ Min(SentencesWithKeyword) > 1
    /\ PaddedRun.lo = Min(SentencesWithKeyword)
    /\ PaddedRun.hi = Min(SentencesWithKeyword) + 1
    /\ sentence = Some(PaddedRun.joined)

\* The sentence(s) assembled before the cap.
Assembled ==
    PadSentence(SplitSentences(text), Min(SentencesWithKeyword))

\* C4: a result longer than max_length is cut to exactly its first max_length
\* characters followed by "...", a shorter one is returned unchanged, and the
\* result never exceeds max_length + 3 characters.
C4_CappedWithMarker ==
    ("extract_complete_sentence" \in called /\ sentence # None) =>
        LET whole == Assembled
        IN  /\ Len(whole) > max_length =>
                  /\ Len(sentence[1]) = max_length + 3
                  /\ SubSeq(sentence[1], 1, max_length) = SubSeq(whole, 1, max_length)
                  /\ SubSeq(sentence[1], max_length + 1, max_length + 3) = "..."
            /\ Len(whole) <= max_length => sentence[1] = whole
            /\ Len(sentence[1]) <= max_length + 3

\* A result that was cut.
C4_Witness ==
    /\ "extract_complete_sentence" \in called
    /\ sentence # None
    /\ Len(Assembled) > max_length

---------------------------------------------------------------------------
(* Properties of the corpus analyses (checked under Spec) *)

\* The review bodies (nulls dropped) of the corpus rows rated within
\* `ratings`, in corpus order.
ReviewsRated(ratings) ==
    LET rows == SelectSeq(df, LAMBDA row : row.rating \in ratings /\ row.review # None)
    IN  [i \in DOMAIN rows |-> rows[i].review[1]]

ForceItems(force) ==
    {i \in DOMAIN forces_analysis : forces_analysis[i].force = force}

AnalysisOf(polarity) ==
    IF polarity = "complaint" THEN complaint_analysis ELSE praise_analysis

PoolOf(polarity) ==
    IF polarity = "complaint" THEN ReviewsRated(0..2) ELSE ReviewsRated(4..5)

\* The position, in the category's pattern list, of the theme called `name`.
PatternNamed(polarity, category, name) ==
    CHOOSE p \in DOMAIN PatternsOf(polarity, category) :
        PatternsOf(polarity, category)[p].name = name

\* C5: complaints, the push force and the pain points are computed from the
\* rows rated <= 2 alone, praise, the pull force and the wins from the rows
\* rated >= 4 alone, so a 3-star row contributes to none of them; the anxiety
\* and habit forces are computed from every row; and a corpus of 3-star rows
\* only has empty complaint and praise analyses and no push or pull force.
C5_PoolsByRating ==
    /\ "run_free_analysis" \in called =>
          /\ complaint_analysis = AnalyzePolarity(ReviewsRated(0..2), "complaint")
          /\ praise_analysis = AnalyzePolarity(ReviewsRated(4..5), "praise")
          /\ \A force \in DOMAIN ForceKeywords :
                LET pool == CASE force = "push" -> ReviewsRated(0..2)
                              [] force = "pull" -> ReviewsRated(4..5)
                              [] OTHER -> ReviewsRated(0..5)
                    expected == ForceScenarios(pool, force)
                IN  /\ (ForceItems(force) = {}) <=> (expected = <<>>)
                    /\ \A i \in ForceItems(force) :
                          /\ forces_analysis[i].count = Len(expected)
                          /\ Range(forces_analysis[i].scenarios) \subseteq Range(expected)
          /\ (\A r \in DOMAIN df : df[r].rating = 3) =>
                /\ complaint_analysis = <<>>
                /\ praise_analysis = <<>>
                /\ ForceItems("push") = {}
                /\ ForceItems("pull") = {}
    /\ "analyze_outcomes" \in called =>
          /\ pain_points \in AnalyzeDimensions(ReviewsRated(0..2), pain_keywords, PainTable)
          /\ wins \in AnalyzeDimensions(ReviewsRated(4..5), win_keywords, WinTable)
          /\ (\A r \in DOMAIN df : df[r].rating = 3) =>
                pain_points = <<>> /\ wins = <<>>

\* Both analyses have run on a corpus of 3-star rows only, whose review holds
\* complaint, praise, push, pull, pain and win keywords: nothing but the
\* anxiety and habit forces came out.
C5_Witness ==
    /\ called = {"run_free_analysis", "analyze_outcomes"}
    /\ df # <<>>
    /\ \A r \in DOMAIN df :
          /\ df[r].rating = 3
          /\ df[r].review # None
          /\ find_keyword_in_text(df[r].review[1], FEATURE_PATTERNS["Bugs/Reliability"]) # None
          /\ ScenarioTable[df[r].review[1]]["push"] # None
          /\ ScenarioTable[df[r].review[1]]["pull"] # None
          /\ \E p \in DOMAIN pain_keywords : PainTable[df[r].review[1]][p] # None
          /\ \E p \in DOMAIN win_keywords : WinTable[df[r].review[1]][p] # None
    /\ complaint_analysis = <<>>
    /\ praise_analysis = <<>>
    /\ pain_points = <<>>
    /\ wins = <<>>
    /\ ForceItems("anxiety") # {}
    /\ ForceItems("habit") # {}
    /\ ForceItems("push") = {}
    /\ ForceItems("pull") = {}

\* C6: in every category of both polarities the theme list has at most 5
\* themes, in non-increasing order of count, none with count 0, and each
\* theme's examples are the first (at most 3) of the category's candidate
\* sentences, in the order they were collected, that match the theme.
C6_ThemesRankedAndCapped ==
    "run_free_analysis" \in called =>
        \A polarity \in {"complaint", "praise"} :
            \A c \in DOMAIN AnalysisOf(polarity) :
                LET category   == AnalysisOf(polarity)[c].category
                    themes     == AnalysisOf(polarity)[c].themes
                    candidates == MatchingReviews(PoolOf(polarity), category)
                IN  /\ Len(themes) <= 5
                    /\ \A i \in DOMAIN themes : \A j \in DOMAIN themes :
                          i < j => themes[i].count >= themes[j].count
                    /\ \A i \in DOMAIN themes :
                          LET p == PatternNamed(polarity, category, themes[i].name)
                              matching ==
                                  SelectSeq(candidates,
                                            LAMBDA s : p \in ThemeTable[s][category][polarity])
                          IN  /\ themes[i].count > 0
                              /\ Len(themes[i].examples) <= 3
                              /\ themes[i].examples = FirstN(matching, 3)

\* A category whose themes came out in another order than the pattern list has
\* them, the first of them with more matching candidates than examples.
C6_Witness ==
    /\ "run_free_analysis" \in called
    /\ \E c \in DOMAIN complaint_analysis :
          LET category == complaint_analysis[c].category
              themes   == complaint_analysis[c].themes
          IN  /\ Len(themes) >= 2
              /\ themes[1].count > 3
              /\ Len(themes[1].examples) = 3
              /\ themes[1].count > themes[2].count
              /\ PatternNamed("complaint", category, themes[1].name)
                    > PatternNamed("complaint", category, themes[2].name)

\* C7: each returned theme's count is the number of the category's candidate
\* sentences that contain one of the theme's keywords, whatever other themes
\* the same sentences belong to, and is at most the category's total_count.
C7_ThemeCountIndependent ==
    "run_free_analysis" \in called =>
        \A polarity \in {"complaint", "praise"} :
            \A c \in DOMAIN AnalysisOf(polarity) :
                LET category   == AnalysisOf(polarity)[c].category
                    themes     == AnalysisOf(polarity)[c].themes
                    candidates == MatchingReviews(PoolOf(polarity), category)
                IN  \A i \in DOMAIN themes :
                        LET p == PatternNamed(polarity, category, themes[i].name)
                        IN  /\ themes[i].count =
                                  Cardinality({k \in DOMAIN candidates :
                                      p \in ThemeTable[candidates[k]][category][polarity]})
                            /\ themes[i].count <= AnalysisOf(polarity)[c].total_count

\* A candidate sentence that is counted in two themes of its category, one of
\* them holding fewer sentences than the category has candidates.
C7_Witness ==
    /\ "run_free_analysis" \in called
    /\ \E c \in DOMAIN complaint_analysis :
          LET category   == complaint_analysis[c].category
              themes     == complaint_analysis[c].themes
              candidates == MatchingReviews(ReviewsRated(0..2), category)
          IN  \E i \in DOMAIN themes : \E j \in DOMAIN themes :
                  /\ i # j
                  /\ themes[i].count < complaint_analysis[c].total_count
                  /\ \E k \in DOMAIN candidates :
                        {PatternNamed("complaint", category, themes[i].name),
                         PatternNamed("complaint", category, themes[j].name)}
                            \subseteq ThemeTable[candidates[k]]["Bugs/Reliability"]["complaint"]
                  /\ category = "Bugs/Reliability"

\* The percentage of every item is 100 * count / pool_size, with a pool that
\* is not empty.
PercentagesOf(items, count_field, pool) ==
    \A i \in DOMAIN items :
        /\ Len(pool) # 0
        /\ items[i].percentage.den # 0
        /\ items[i].percentage.num * Len(pool)
              = 100 * items[i][count_field] * items[i].percentage.den

CategoryPosition(category) ==
    CHOOSE i \in DOMAIN CategoryOrder : CategoryOrder[i] = category

\* `sorted` lists exactly the items of `analysis`, by total_count descending,
\* equal counts in the order of FEATURE_PATTERNS.
PresentationOrder(sorted, analysis) ==
    /\ Len(sorted) = Len(analysis)
    /\ Range(sorted) = Range(analysis)
    /\ \A i \in DOMAIN sorted : \A j \in DOMAIN sorted :
          i < j =>
              \/ sorted[i].total_count > sorted[j].total_count
              \/ /\ sorted[i].total_count = sorted[j].total_count
                 /\ CategoryPosition(sorted[i].category)
                       < CategoryPosition(sorted[j].category)

\* C9: the categories are presented by total match count descending, and
\* categories with equal counts in the order FEATURE_PATTERNS lists them.
C9_PresentationOrderStable ==
    "run_free_analysis" \in called =>
        /\ PresentationOrder(sorted_complaints, complaint_analysis)
        /\ PresentationOrder(sorted_praise, praise_analysis)

\* The presentation moved a category in front of an earlier one of the
\* vocabulary, and two categories with equal counts follow each other.
C9_Witness ==
    /\ "run_free_analysis" \in called
    /\ sorted_complaints # complaint_analysis
    /\ \E i \in DOMAIN sorted_complaints : \E j \in DOMAIN sorted_complaints :
          /\ i < j
          /\ sorted_complaints[i].total_count = sorted_complaints[j].total_count

\* The pool texts that contain "crashes".
WithCrashes == {t \in PoolTexts : Contains(Lower(t), "crashes")}

\* C10: when the negative pool consists of exactly 3 reviews that each contain
\* "crashes", the complaint analysis has the Bugs/Reliability category and its
\* "crashes frequently" theme has count 3.
C10_ThreeCrashReviewsCounted ==
    ( /\ "run_free_analysis" \in called
      /\ Len(ReviewsRated(0..2)) = 3
      /\ Range(ReviewsRated(0..2)) \subseteq WithCrashes ) =>
        \E c \in DOMAIN complaint_analysis :
            /\ complaint_analysis[c].category = "Bugs/Reliability"
            /\ \E i \in DOMAIN complaint_analysis[c].themes :
                  /\ complaint_analysis[c].themes[i].name = "crashes frequently"
                  /\ complaint_analysis[c].themes[i].count = 3

\* For every pool text: the categories whose top-level vocabulary has a word
\* in the lowercased text.
CategoriesIn ==
    [review \in PoolTexts |->
        {category \in Range(CategoryOrder) :
            \E k \in DOMAIN FEATURE_PATTERNS[category] :
                Contains(Lower(review), FEATURE_PATTERNS[category][k])}]

\* The items of the analysis for the category.
CategoryItems(polarity, category) ==
    {i \in DOMAIN AnalysisOf(polarity) : AnalysisOf(polarity)[i].category = category}

\* The reviews of the polarity's pool (by position) that match the category.
MatchingTheCategory(polarity, category) ==
    {i \in DOMAIN PoolOf(polarity) : category \in CategoriesIn[PoolOf(polarity)[i]]}

\* Whether a candidate sentence of the category, from the polarity's pool,
\* holds a sub-keyword of one of the category's themes.
SomeThemeMatches(polarity, category) ==
    \E i \in MatchingTheCategory(polarity, category) :
        LET s == CandidateTable[PoolOf(polarity)[i]][category]
        IN  /\ s # None
            /\ \E p \in DOMAIN PatternsOf(polarity, category) :
                  MatchesTheme(s[1], PatternsOf(polarity, category)[p].keywords)

\* C28: a category is in the complaint (praise) analysis if and only if a
\* review of the negative (positive) pool matches its top-level vocabulary,
\* also when no candidate sentence matches a theme sub-keyword: the category
\* is then present with total_count >= 1 and an empty list of themes.
C28_CategoryPresentIffReviewMatches ==
    "run_free_analysis" \in called =>
        \A polarity \in {"complaint", "praise"} : \A category \in Range(CategoryOrder) :
            /\ CategoryItems(polarity, category) # {}
                  <=> MatchingTheCategory(polarity, category) # {}
            /\ \A i \in CategoryItems(polarity, category) :
                  /\ AnalysisOf(polarity)[i].total_count >= 1
                  /\ AnalysisOf(polarity)[i].total_count
                        = Cardinality(MatchingTheCategory(polarity, category))
                  /\ AnalysisOf(polarity)[i].themes = <<>>
                        <=> ~SomeThemeMatches(polarity, category)

\* A complaint category is present without themes, counting several reviews,
\* next to one with themes, and a category of the vocabulary is absent.
C28_Witness ==
    /\ "run_free_analysis" \in called
    /\ \E i \in DOMAIN complaint_analysis : \E j \in DOMAIN complaint_analysis :
          /\ complaint_analysis[i].themes = <<>>
          /\ complaint_analysis[i].total_count >= 2
          /\ complaint_analysis[j].themes # <<>>
    /\ \E category \in Range(CategoryOrder) : CategoryItems("complaint", category) = {}

\* C11: every force of the forces analysis lists at most 5 scenarios, which
\* are pairwise distinct strings, each longer than 30 characters.
C11_ScenariosCappedDistinctLong ==
    "analyze_forces_of_progress" \in called =>
        \A f \in DOMAIN forces_analysis :
            LET scenarios == forces_analysis[f].scenarios
            IN  /\ Len(scenarios) <= 5
                /\ \A i \in DOMAIN scenarios : \A j \in DOMAIN scenarios :
                      i # j => scenarios[i] # scenarios[j]
                /\ \A i \in DOMAIN scenarios : Len(scenarios[i]) > 30

\* A force that was mentioned by more than 5 reviews and lists 5 scenarios.
C11_Witness ==
    /\ "analyze_forces_of_progress" \in called
    /\ \E f \in DOMAIN forces_analysis :
          /\ forces_analysis[f].count > 5
          /\ Len(forces_analysis[f].scenarios) = 5

\* The pool each force is computed over, read off the corpus.
PoolOfForce(force) ==
    CASE force = "push" -> ReviewsRated(0..2)
      [] force = "pull" -> ReviewsRated(4..5)
      [] OTHER -> ReviewsRated(0..5)

\* The count of a force, 0 for a force that is not returned.
CountOfForce(force) ==
    IF ForceItems(force) = {} THEN 0
    ELSE forces_analysis[CHOOSE i \in ForceItems(force) : TRUE].count

\* For every pool text and force: whether the sentence extracted for the first
\* keyword of the vocabulary found in the text is longer than 30 characters.
FirstHitKept ==
    [review \in PoolTexts |->
        [force \in DOMAIN ForceKeywords |->
            LET first == find_keyword_in_text(review, ForceKeywords[force])
            IN  /\ first # None
                /\ LET s == extract_complete_sentence(review, first[1], ScenarioMaxLength)
                   IN  Truthy(s) /\ Len(s[1]) > 30]]

\* C12: in each force pass a review contributes a scenario only through the
\* first keyword of the vocabulary found in it: when the sentence extracted for
\* that keyword is 30 characters or shorter the review contributes nothing,
\* later keywords are not tried.
C12_FirstKeywordOnly ==
    "run_free_analysis" \in called =>
        \A force \in DOMAIN ForceKeywords :
            CountOfForce(force) =
                Cardinality({i \in DOMAIN PoolOfForce(force) :
                                FirstHitKept[PoolOfForce(force)[i]][force]})

\* C13: each review adds at most one scenario to a force, so a force's count
\* is the number of reviews of its pool that add one and at most the size of
\* that pool (negative for push, positive for pull, all reviews for anxiety
\* and habit).
C13_OneScenarioPerReview ==
    "run_free_analysis" \in called =>
        \A force \in DOMAIN ForceKeywords :
            /\ CountOfForce(force) <= Len(PoolOfForce(force))
            /\ CountOfForce(force) =
                  Cardinality({i \in DOMAIN PoolOfForce(force) :
                                  EveryKeywordTable[PoolOfForce(force)[i]][force] # <<>>})

\* Every negative review is counted once in push although one of them holds
\* several push keywords with long sentences, and that review is counted in
\* the anxiety force too.
C13_Witness ==
    /\ "run_free_analysis" \in called
    /\ ReviewsRated(0..2) # <<>>
    /\ CountOfForce("push") = Len(ReviewsRated(0..2))
    /\ \E i \in DOMAIN ReviewsRated(0..2) :
          /\ Len(EveryKeywordTable[ReviewsRated(0..2)[i]]["push"]) > 1
          /\ EveryKeywordTable[ReviewsRated(0..2)[i]]["anxiety"] # <<>>
    /\ CountOfForce("anxiety") >= 1

---------------------------------------------------------------------------
\* The reviews of the force's pool (by position) that add a scenario to it.
Contributing(force) ==
    {i \in DOMAIN PoolOfForce(force) :
        EveryKeywordTable[PoolOfForce(force)[i]][force] # <<>>}

\* C27: a force is in the result of analyze_forces_of_progress if and only if
\* a scenario was kept for it; its count is the number of scenarios kept
\* before deduplication and capping, one per contributing review, so it is at
\* least the number of scenarios listed and at least 1, and the insight string
\* starts with that count.
C27_ForcePresentIffScenarioKept ==
    "analyze_forces_of_progress" \in called =>
        \A force \in DOMAIN ForceKeywords :
            /\ ForceItems(force) # {} <=> Contributing(force) # {}
            /\ Cardinality(ForceItems(force)) <= 1
            /\ \A f \in ForceItems(force) :
                  LET count  == forces_analysis[f].count
                      digits == ToString(count)
                  IN  /\ count = Cardinality(Contributing(force))
                      /\ count >= Len(forces_analysis[f].scenarios)
                      /\ count >= 1
                      /\ Len(forces_analysis[f].scenarios) >= 1
                      /\ SubSeq(forces_analysis[f].insight, 1, Len(digits) + 9)
                            = digits \o " mentions"

\* A force is returned with a count above the number of its scenarios because
\* two reviews gave the same scenario, and another force is left out although
\* its pool is not empty.
C27_Witness ==
    /\ "analyze_forces_of_progress" \in called
    /\ \E f \in DOMAIN forces_analysis :
          /\ forces_analysis[f].count > Len(forces_analysis[f].scenarios)
          /\ forces_analysis[f].count <= 5
    /\ \E force \in DOMAIN ForceKeywords :
          ForceItems(force) = {} /\ PoolOfForce(force) # <<>>

(* Properties of extract_jtbds_from_reviews (checked under SpecJobs) *)

\* The reviews of the sample that the extraction examines.
Examined ==
    SubSeq(job_reviews, 1,
           IF job_limit < Len(job_reviews) THEN job_limit ELSE Len(job_reviews))

\* The statements recorded for the examined reviews, in discovery order.
Recorded == CollectStatements(Examined)

\* The lowercased first 30 characters of a statement.
PrefixOf(jtbd) ==
    Lower(SubSeq(jtbd.statement, 1,
                 IF Len(jtbd.statement) < 30 THEN Len(jtbd.statement) ELSE 30))

\* The positions of `recorded` that hold the first occurrence of their prefix.
FirstOccurrences(recorded) ==
    {i \in DOMAIN recorded :
        \A j \in 1..(i - 1) : PrefixOf(recorded[j]) # PrefixOf(recorded[i])}

\* C14: at most 10 statements are returned, no two with the same lowercased
\* first 30 characters; they are the recorded statements in discovery order,
\* the first occurrence of every prefix only, cut to the first 10.
C14_DeduplicatedTopTen ==
    "extract_jtbds_from_reviews" \in called =>
        LET recorded == Recorded
            kept     == FirstOccurrences(recorded)
        IN  /\ Len(jtbd_statements) <= 10
            /\ \A i \in DOMAIN jtbd_statements : \A j \in DOMAIN jtbd_statements :
                  i # j => PrefixOf(jtbd_statements[i]) # PrefixOf(jtbd_statements[j])
            /\ Len(jtbd_statements) =
                  (IF Cardinality(kept) < 10 THEN Cardinality(kept) ELSE 10)
            /\ \A n \in DOMAIN jtbd_statements :
                  \E k \in kept :
                      /\ Cardinality({j \in kept : j <= k}) = n
                      /\ jtbd_statements[n] = recorded[k]

\* More than 10 different prefixes were recorded, one of them twice, and 10
\* statements were returned.
C14_Witness ==
    /\ "extract_jtbds_from_reviews" \in called
    /\ Cardinality(FirstOccurrences(Recorded)) > 10
    /\ FirstOccurrences(Recorded) # DOMAIN Recorded
    /\ Len(jtbd_statements) = 10

\* C15: every returned statement is a whole sentence of an examined review,
\* stripped of surrounding whitespace, more than 20 and less than 300
\* characters long, and its context is the first 300 characters of that review.
C15_WholeSentenceWithContext ==
    "extract_jtbds_from_reviews" \in called =>
        \A n \in DOMAIN jtbd_statements :
            /\ Len(jtbd_statements[n].statement) > 20
            /\ Len(jtbd_statements[n].statement) < 300
            /\ \E r \in DOMAIN Examined :
                  LET sentences == SplitSentences(Examined[r])
                  IN  /\ jtbd_statements[n].full_review =
                            SubSeq(Examined[r], 1,
                                   IF Len(Examined[r]) < 300 THEN Len(Examined[r]) ELSE 300)
                      /\ \E i \in DOMAIN sentences :
                            jtbd_statements[n].statement = Strip(sentences[i])

\* A statement was returned for a review of more than 300 characters that also
\* holds a matching sentence of 300 characters or more, which was not recorded.
C15_Witness ==
    /\ "extract_jtbds_from_reviews" \in called
    /\ \E n \in DOMAIN jtbd_statements :
          /\ jtbd_statements[n].full_review = SubSeq(LongJobReview, 1, 300)
          /\ Len(LongJobReview) > 300
          /\ FirstMatch(LongJobReview, job_patterns[2]) # None
          /\ \A m \in DOMAIN jtbd_statements :
                jtbd_statements[m].full_review = SubSeq(LongJobReview, 1, 300)
                    => m = n

\* The number of examined reviews with the context c.
ReviewsWithContext(c) ==
    Cardinality({r \in DOMAIN Examined :
        SubSeq(Examined[r], 1,
               IF Len(Examined[r]) < 300 THEN Len(Examined[r]) ELSE 300) = c})

\* C16: at most one statement is recorded per review: the statements returned
\* with one context are no more than the examined reviews with that context.
C16_OneStatementPerReview ==
    "extract_jtbds_from_reviews" \in called =>
        \A n \in DOMAIN jtbd_statements :
            Cardinality({m \in DOMAIN jtbd_statements :
                            jtbd_statements[m].full_review = jtbd_statements[n].full_review})
                <= ReviewsWithContext(jtbd_statements[n].full_review)

\* C17: only the first `limit` reviews of the sample are examined, in sample
\* order: the result is what the first `limit` reviews alone give, and every
\* returned statement was recorded for a review at a position below the limit.
C17_OnlyFirstLimitReviews ==
    "extract_jtbds_from_reviews" \in called =>
        /\ jtbd_statements = FirstN(Deduplicate(CollectStatements(Examined), {}), TopJobs)
        /\ \A n \in DOMAIN jtbd_statements :
              \E r \in 1..Len(job_reviews) :
                  /\ r <= job_limit
                  /\ jtbd_statements[n] \in Range(JobTable[job_reviews[r]])
        /\ \A n \in DOMAIN jtbd_statements : \A m \in DOMAIN jtbd_statements :
              n < m =>
                  \E r \in DOMAIN Examined : \E q \in DOMAIN Examined :
                      /\ r <= q
                      /\ jtbd_statements[n] \in Range(JobTable[Examined[r]])
                      /\ jtbd_statements[m] \in Range(JobTable[Examined[q]])

\* The sample is longer than the limit, and a review past the limit holds a
\* statement that was not returned although fewer than 10 were.
C17_Witness ==
    /\ "extract_jtbds_from_reviews" \in called
    /\ job_limit < Len(job_reviews)
    /\ jtbd_statements # <<>>
    /\ Len(jtbd_statements) < 10
    /\ \E r \in (job_limit + 1)..Len(job_reviews) :
          \E jtbd \in Range(JobTable[job_reviews[r]]) :
              /\ jtbd \notin Range(jtbd_statements)
              /\ \A n \in DOMAIN jtbd_statements :
                    PrefixOf(jtbd_statements[n]) # PrefixOf(jtbd)

\* The positions of the examined reviews that hold the furniture review.
FurniturePositions == {r \in DOMAIN Examined : Examined[r] = Furniture}

\* The statements recorded before the first furniture review.
BeforeFurniture == CollectStatements(SubSeq(Examined, 1, Min(FurniturePositions) - 1))

\* C18: when the furniture review is among the examined reviews, no statement
\* recorded before it has its lowercased 30-character prefix and fewer than 10
\* statements precede it, the whole sentence is returned as a statement.
C18_FurnitureRecovered ==
    ( /\ "extract_jtbds_from_reviews" \in called
      /\ FurniturePositions # {}
      /\ \A j \in DOMAIN BeforeFurniture :
            PrefixOf(BeforeFurniture[j]) # PrefixOf([statement |-> Furniture])
      /\ Cardinality(FirstOccurrences(BeforeFurniture)) < 10 ) =>
        \E n \in DOMAIN jtbd_statements :
            jtbd_statements[n].statement = Furniture

\* The furniture review was examined after reviews that recorded statements,
\* one of them a repeat, and its sentence was returned.
C18_Witness ==
    /\ "extract_jtbds_from_reviews" \in called
    /\ FurniturePositions # {}
    /\ Min(FurniturePositions) > 1
    /\ FirstOccurrences(BeforeFurniture) # DOMAIN BeforeFurniture
    /\ \A j \in DOMAIN BeforeFurniture :
          PrefixOf(BeforeFurniture[j]) # PrefixOf([statement |-> Furniture])
    /\ \E n \in DOMAIN jtbd_statements :
          n > 1 /\ jtbd_statements[n].statement = Furniture

---------------------------------------------------------------------------
\* The positions of the text at which the template matches.
MatchStarts(review_text, p) ==
    LET t_lower == Lower(review_text)
    IN  {i \in 1..Len(review_text) : MatchGroups(t_lower, i, job_patterns[p], 1) # 0}

\* What one template records for one review: nothing without a match; else
\* the first sentence that contains the text of the first match, if its
\* length is in range.
RecordedByTemplate ==
    [review \in JobTexts |->
        [p \in 1..5 |->
            LET starts == MatchStarts(review, p)
            IN
            IF starts = {} THEN <<>>
            ELSE LET start     == Min(starts)
                     stop      == MatchGroups(Lower(review), start, job_patterns[p], 1)
                     matched   == Lower(SubSeq(review, start, stop - 1))
                     sentences == SplitSentences(review)
                     holding   == {i \in DOMAIN sentences :
                                      Contains(Lower(sentences[i]), matched)}
                 IN  IF holding = {} THEN <<>>
                     ELSE LET clean == Strip(sentences[Min(holding)])
                          IN  IF 20 < Len(clean) /\ Len(clean) < 300
                              THEN <<[statement   |-> clean,
                                      full_review |-> FirstN(review, 300)]>>
                              ELSE <<>>]]

\* The statements recorded for the reviews, template after template within
\* every review.
RECURSIVE RecordedByTemplates(_)
RecordedByTemplates(reviews) ==
    IF reviews = <<>> THEN <<>>
    ELSE LET r == RecordedByTemplate[Head(reviews)]
         IN  r[1] \o r[2] \o r[3] \o r[4] \o r[5] \o RecordedByTemplates(Tail(reviews))

\* C26: within one review every one of the five templates is taken at its
\* first match only and records at most one statement for it, the first
\* sentence that contains the matched text, and the next template is tried on
\* the same review: a review yields up to five recorded statements, one per
\* template.  (What is returned is the recorded statements, first occurrence
\* of every prefix, cut to 10.)
C26_OneStatementPerTemplate ==
    "extract_jtbds_from_reviews" \in called =>
        LET recorded == RecordedByTemplates(Examined)
            first    == FirstOccurrences(recorded)
            kept     == SelectSeq([i \in DOMAIN recorded |-> i], LAMBDA i : i \in first)
        IN  /\ jtbd_statements =
                  [n \in 1..(IF Len(kept) < 10 THEN Len(kept) ELSE 10) |-> recorded[kept[n]]]
            /\ \A r \in DOMAIN Examined :
                  Len(RecordedByTemplates(<<Examined[r]>>)) <= 5

\* The one review examined has all five templates, the first of them matching
\* in two of its sentences; five statements are returned, and the sentence of
\* the second match of the first template is not among them.
C26_Witness ==
    /\ "extract_jtbds_from_reviews" \in called
    /\ job_reviews = <<FiveJobs>>
    /\ Cardinality(MatchStarts(FiveJobs, 1)) >= 2
    /\ Len(jtbd_statements) = 5
    /\ \A n \in DOMAIN jtbd_statements :
          jtbd_statements[n].statement # "We use it for planning the holiday meals as well."

(* Properties of analyze_outcomes (checked under Spec) *)

\* For every pool text and dimension: the keywords of the dimension (by
\* position in its list) that the lowercased text contains.
KeywordsIn(dimensions) ==
    [review \in PoolTexts |->
        [p \in DOMAIN dimensions |->
            {k \in DOMAIN dimensions[p].keywords :
                Contains(Lower(review), dimensions[p].keywords[k])}]]

PainKeywordsIn == KeywordsIn(pain_keywords)

WinKeywordsIn == KeywordsIn(win_keywords)

\* The sentence extracted for the first keyword of the dimension found in the
\* text (defined where the text contains a keyword of the dimension).
FirstKeywordSentence(dimensions, found_in) ==
    [review \in PoolTexts |->
        [p \in DOMAIN dimensions |->
            IF found_in[review][p] = {} THEN None
            ELSE extract_complete_sentence(
                     review, dimensions[p].keywords[Min(found_in[review][p])], 200)]]

PainSentence == FirstKeywordSentence(pain_keywords, PainKeywordsIn)

WinSentence == FirstKeywordSentence(win_keywords, WinKeywordsIn)

\* The items of `outcome` for the dimension called `name`.
OutcomeItems(outcome, name) == {i \in DOMAIN outcome : outcome[i].name = name}

\* Every dimension counts the reviews of the pool that contain one of its
\* keywords, each review once, with examples taken from the sentences of the
\* first keywords found.
CountsReviewsOnce(outcome, dimensions, found_in, first_sentence, pool) ==
    \A p \in DOMAIN dimensions :
        LET hits == {i \in DOMAIN pool : found_in[pool[i]][p] # {}}
        IN  /\ hits = {} => OutcomeItems(outcome, dimensions[p].name) = {}
            /\ \A n \in OutcomeItems(outcome, dimensions[p].name) :
                  /\ outcome[n].count = Cardinality(hits)
                  /\ outcome[n].count <= Len(pool)
                  /\ outcome[n].percentage.num <= 100 * outcome[n].percentage.den
                  /\ \A e \in DOMAIN outcome[n].examples :
                        \E i \in hits :
                            first_sentence[pool[i]][p] = Some(outcome[n].examples[e])

\* C19: each review is counted at most once per dimension, through the first
\* keyword of the dimension found in it: a dimension's count is the number of
\* reviews of its pool whose lowercased text contains one of its keywords, at
\* most the pool size (percentage at most 100).
C19_ReviewCountedOncePerDimension ==
    "analyze_outcomes" \in called =>
        /\ CountsReviewsOnce(pain_points, pain_keywords, PainKeywordsIn, PainSentence,
                             ReviewsRated(0..2))
        /\ CountsReviewsOnce(wins, win_keywords, WinKeywordsIn, WinSentence,
                             ReviewsRated(4..5))

\* A pain dimension counts every one of several negative reviews once, one of
\* which holds two of its keywords.
C19_Witness ==
    /\ "analyze_outcomes" \in called
    /\ Len(ReviewsRated(0..2)) >= 2
    /\ \E n \in DOMAIN pain_points :
          /\ pain_points[n].count = Len(ReviewsRated(0..2))
          /\ \E p \in DOMAIN pain_keywords :
                /\ pain_keywords[p].name = pain_points[n].name
                /\ \E i \in DOMAIN ReviewsRated(0..2) :
                      Cardinality(PainKeywordsIn[ReviewsRated(0..2)[i]][p]) >= 2

\* The dimensions returned are those with a hit, in the order of the
\* vocabulary, each with 1 to 3 pairwise distinct examples.
ExactlyTheHitDimensions(outcome, dimensions, found_in, pool) ==
    LET hit(p) == \E i \in DOMAIN pool : found_in[pool[i]][p] # {}
        names  == SelectSeq([p \in DOMAIN dimensions |-> p], hit)
    IN  /\ [n \in DOMAIN outcome |-> outcome[n].name]
              = [n \in DOMAIN names |-> dimensions[names[n]].name]
        /\ \A n \in DOMAIN outcome :
              /\ outcome[n].count >= 1
              /\ Len(outcome[n].examples) >= 1
              /\ Len(outcome[n].examples) <= 3
              /\ \A i \in DOMAIN outcome[n].examples : \A j \in DOMAIN outcome[n].examples :
                    i # j => outcome[n].examples[i] # outcome[n].examples[j]

\* C20: analyze_outcomes returns exactly the dimensions with at least one hit,
\* neither ranked nor capped, each with between 1 and 3 example sentences that
\* are pairwise distinct.
C20_HitDimensionsWithExamples ==
    "analyze_outcomes" \in called =>
        /\ ExactlyTheHitDimensions(pain_points, pain_keywords, PainKeywordsIn,
                                   ReviewsRated(0..2))
        /\ ExactlyTheHitDimensions(wins, win_keywords, WinKeywordsIn,
                                   ReviewsRated(4..5))

\* Several pain dimensions are returned, a later one with a higher count than
\* an earlier one: it has more than 3 hits and 3 examples.
C20_Witness ==
    /\ "analyze_outcomes" \in called
    /\ \E n \in DOMAIN pain_points : \E m \in DOMAIN pain_points :
          /\ n < m
          /\ pain_points[n].count < pain_points[m].count
          /\ pain_points[m].count > 3
          /\ Len(pain_points[m].examples) = 3

---------------------------------------------------------------------------
(* Properties across the analyses (checked under Spec) *)

SyncReview == "I love how fast this syncs across my devices!"

\* The corpus rows rated 4 or 5.
RowsRatedHigh == SelectSeq(df, LAMBDA row : row.rating >= 4)

\* C21: in a corpus whose only review rated >= 4 is "I love how fast this
\* syncs across my devices!", the scenarios of the pull force, the examples of
\* the "Fast" win and the examples of the "Syncs well" win each contain that
\* sentence: one review is filed in several buckets at once.
C21_SyncReviewInSeveralBuckets ==
    RowsRatedHigh = <<[rating |-> 5, review |-> Some(SyncReview)]>> =>
        /\ "run_free_analysis" \in called =>
              \E f \in ForceItems("pull") :
                  SyncReview \in Range(forces_analysis[f].scenarios)
        /\ "analyze_outcomes" \in called =>
              /\ \E n \in OutcomeItems(wins, "Fast") :
                    SyncReview \in Range(wins[n].examples)
              /\ \E n \in OutcomeItems(wins, "Syncs well") :
                    SyncReview \in Range(wins[n].examples)

\* Both analyses have run on such a corpus, which also holds reviews of
\* other ratings.
C21_Witness ==
    /\ RowsRatedHigh = <<[rating |-> 5, review |-> Some(SyncReview)]>>
    /\ Len(df) > 1
    /\ {"run_free_analysis", "analyze_outcomes"} \subseteq called
    /\ ForceItems("pull") # {}
    /\ OutcomeItems(wins, "Fast") # {}
    /\ OutcomeItems(wins, "Syncs well") # {}

\* The corpus in which every missing body is replaced by the empty string.
WithEmptyBodies(d) ==
    [i \in DOMAIN d |->
        [rating |-> d[i].rating,
         review |-> IF d[i].review = None THEN Some("") ELSE d[i].review]]

\* C22: a review whose body is missing is handled as if its body were the
\* empty string: the results of analyze_complaints_and_praise,
\* analyze_forces_of_progress and analyze_outcomes (counts, percentages and
\* examples) are those of the corpus in which each missing body is replaced
\* by "".
C22_MissingBodyAsEmpty ==
    /\ "run_free_analysis" \in called =>
          /\ complaint_analysis = analyze_complaints(WithEmptyBodies(df))
          /\ praise_analysis = analyze_praise(WithEmptyBodies(df))
          /\ forces_analysis \in analyze_forces_of_progress(WithEmptyBodies(df))
    /\ "analyze_outcomes" \in called =>
          /\ pain_points \in analyze_pain_points(WithEmptyBodies(df))
          /\ wins \in analyze_wins(WithEmptyBodies(df))

\* The forces returned, with their counts.
ForceCounts(forces) ==
    [i \in DOMAIN forces |-> [force |-> forces[i].force, count |-> forces[i].count]]

\* The dimensions returned, with their counts and percentages.
DimensionCounts(outcome) ==
    [i \in DOMAIN outcome |->
        [name       |-> outcome[i].name,
         count      |-> outcome[i].count,
         percentage |-> outcome[i].percentage]]

---------------------------------------------------------------------------
(* Properties of scrape_app_reviews (checked under SpecScrapeLive) *)

\* The number of pages the loop may visit.
PageBudget == IF max_pages > 0 THEN max_pages ELSE 0

\* The rows of the entries of a page that precede its first entry whose
\* conversion raises (all of them if none raises).
ConvertedPrefix(entries) ==
    LET bad  == {i \in DOMAIN entries : ConvertEntry(entries[i]).raised}
        last == IF bad = {} THEN Len(entries) ELSE Min(bad) - 1
    IN  [i \in 1..last |-> ConvertEntry(entries[i]).row[1]]

\* A page with no entries, or whose fetch or parse fails.
PageFails(p) ==
    \/ feed[p].raised
    \/ feed[p].entries = <<>>
    \/ \E i \in DOMAIN feed[p].entries : ConvertEntry(feed[p].entries[i]).raised

\* The page the scraper stops at: the first failing page within the budget,
\* the last page of the budget if there is none.
StopPage ==
    LET failing == {p \in 1..PageBudget : PageFails(p)}
    IN  IF failing = {} THEN PageBudget ELSE Min(failing)

\* The reviews collected on pages 1..n.
RECURSIVE CollectedUpTo(_)
CollectedUpTo(n) ==
    IF n = 0 THEN <<>>
    ELSE CollectedUpTo(n - 1)
            \o (IF feed[n].raised THEN <<>> ELSE ConvertedPrefix(feed[n].entries))

ScrapeSafety ==
    /\ requested = [i \in 1..Len(requested) |-> i]
    /\ Len(requested) <= PageBudget
    /\ \A i \in DOMAIN requested : i < Len(requested) => ~PageFails(requested[i])
    /\ pc = "returned" =>
          /\ Len(requested) = StopPage
          /\ scraped = Some(CollectedUpTo(StopPage))
          /\ (PageBudget > 0 /\ feed[1] = Fetched(<<>>)) => scraped = Some(<<>>)

\* C24: scrape_app_reviews requests pages 1, 2, ... in increasing order and
\* never more than max_pages of them, stops at the first page that has no
\* entries or whose fetch or parse fails, and always terminates, returning
\* the reviews collected before it stopped; a feed with no entries yields an
\* empty result.
C24_ScrapeStopsAndReturns ==
    /\ []ScrapeSafety
    /\ <>(pc = "returned")

\* The scraper has returned after stopping on its third page, in the middle
\* of that page, with the reviews of the first two pages and the first one of
\* the third.
C24_Witness ==
    /\ pc = "returned"
    /\ max_pages = 3
    /\ requested = <<1, 2, 3>>
    /\ feed[3] = Fetched(<<Complete, BadRating, Bare>>)
    /\ scraped # None
    /\ Len(scraped[1]) >= 3

=============================================================================
